---- MODULE Spec2Model ----
(***************************************************************************)
(* Model of the Helios autonomous decision engine                          *)
(* (helios/backend/decision_engine.py) together with the parts of the      *)
(* metacognitive engine (metacognition.py) and of the journal sink         *)
(* (memory_store.py) that the decision engine calls.                       *)
(*                                                                         *)
(* Decisions are Python objects shared by reference between the list a     *)
(* call returns, pending_decisions and decision_history: the model keeps   *)
(* them in the object store `decisions` and the lists hold indices into    *)
(* it.  Floats are scaled integers: performance samples and metric values  *)
(* are hundredths, confidence, predicted performance and uncertainty are   *)
(* ten-thousandths (rounded down), goal progress is a multiple of          *)
(* 1/ProgressScale.                                                        *)
(***************************************************************************)
EXTENDS Integers, Sequences, FiniteSets, TLC

\* ------------------------------------------------------------------ bounds
MaxOperations == 3   \* calls made by clients (mode toggles and calls of
                     \* make_autonomous_decision with the mode off are not counted)
MaxCalls == 2        \* of these, the calls that enqueue decisions
MaxFailures == 1     \* steps in which the journal sink fails, per outage
MaxValue == 2        \* goal values range over 0..MaxValue
MaxSamples == 2      \* every performance history of up to MaxSamples items is assessed

Threads == {"t1", "t2"}
NoThread == "none"
GoalIds == {"g1", "g2"}
GoalValues == 0..MaxValue

RECURSIVE Factorial(_)
Factorial(n) == IF n <= 1 THEN 1 ELSE n * Factorial(n - 1)

\* progress p in [0,1] is stored as the integer p * ProgressScale; every
\* quotient (v - o)/(t - o) over GoalValues is a multiple of 1/ProgressScale
ProgressScale == Factorial(MaxValue)

\* ------------------------------------------------------- program constants
max_concurrent_decisions == 3
decision_confidence_threshold == 6000
initial_evaluation_frequency == 100

CRITICAL == 1
HIGH == 2
MEDIUM == 3
LOW == 4
DecisionPriority == {CRITICAL, HIGH, MEDIUM, LOW}

DecisionType == {"parameter_adjustment", "strategy_change", "resource_allocation",
                 "goal_prioritization", "training_schedule", "evaluation_trigger"}

DecisionStatus == {"pending", "executing", "completed", "failed", "cancelled"}

LearningStrategy == {"conservative", "balanced", "aggressive", "adaptive",
                     "active_learning"}

\* ------------------------------------------------------------ sequences
Range(s) == {s[i] : i \in 1..Len(s)}

\* list.remove(x): drops the first element equal to x
RemoveFirst(s, x) ==
    IF \E i \in 1..Len(s) : s[i] = x
    THEN LET k == CHOOSE i \in 1..Len(s) : s[i] = x /\ \A j \in 1..(i - 1) : s[j] # x
         IN  SubSeq(s, 1, k - 1) \o SubSeq(s, k + 1, Len(s))
    ELSE s

\* s[:n]
Take(s, n) == SubSeq(s, 1, IF Len(s) < n THEN Len(s) ELSE n)

\* list.sort(key=...) on a list of <<key, item>> pairs: stable, ascending in key
RECURSIVE StableSort(_)
StableSort(s) ==
    IF Len(s) = 0 THEN <<>>
    ELSE LET k == CHOOSE i \in 1..Len(s) :
                     /\ \A j \in 1..Len(s) : s[i][1] <= s[j][1]
                     /\ \A j \in 1..(i - 1) : s[j][1] > s[i][1]
         IN  <<s[k]>> \o StableSort(SubSeq(s, 1, k - 1) \o SubSeq(s, k + 1, Len(s)))

\* ------------------------------------------------------------ inputs
\* Goal(...) objects a caller passes to add_goal (progress and active keep
\* their dataclass defaults)
Goal(id, target, current, prio, deps) ==
    [goal_id |-> id, target_metric |-> "accuracy", target_value |-> target,
     current_value |-> current, priority |-> prio, dependencies |-> deps,
     progress |-> 0, active |-> TRUE]

GoalInputs ==
    {Goal("g1", MaxValue, 0, 2, {}), Goal("g1", MaxValue, 0, 2, {"g2"}),
     Goal("g2", MaxValue, 0, 1, {}), Goal("g2", MaxValue, 0, 2, {"g1"})}

\* ------------------------------------------------------------ journal sink
EventTypes == {"goal_added", "goal_progress_update", "goal_completed",
               "self_assessment", "metacognitive_recommendations",
               "strategy_change", "decision_result", "performance_metric"}
JournalKeys == GoalIds \cup {"-"}
EmptyJournal == [e \in EventTypes \X JournalKeys |-> 0]

\* store_enhanced_journal_entry / store_performance_metric when the insert
\* succeeds: one more row of that event type
JournalWrite(j, event_type, key) == [j EXCEPT ![<<event_type, key>>] = @ + 1]

\* ------------------------------------------------------------------ state
VARIABLES
    autonomous_mode,     \* self.autonomous_mode
    active_goals,        \* self.active_goals, in insertion order
    pending_decisions,   \* self.pending_decisions: references into decisions
    decision_history,    \* self.decision_history: references into decisions
    base_resources,      \* self.base_resources
    decisions,           \* the Decision objects that were enqueued, by reference
    decision_lock,       \* holder of self.decision_lock, or NoThread
    journal,             \* rows the journal sink has stored, per event type
    pc,                  \* per thread: where it is in make_autonomous_decision
    loc,                 \* per thread: locals of the running call
    ret,                 \* how the call that ended last ended
    completion_fired,    \* per goal: calls of _trigger_goal_completion_decisions
    operations,          \* client calls made so far
    calls,               \* of these, the calls that enqueue decisions
    failures             \* journal writes that failed so far

vars == <<autonomous_mode, active_goals, pending_decisions, decision_history,
          base_resources, decisions, decision_lock, journal, pc, loc, ret,
          completion_fired, operations, calls, failures>>

engine == <<autonomous_mode, active_goals, pending_decisions, decision_history,
            base_resources, decisions, journal, completion_fired>>

\* the sink fails in this step (sqlite raises; the write stores nothing)
SinkFails == failures < MaxFailures /\ failures' = failures + 1

NoLocals == [metrics |-> [training_stability |-> -1, accuracy |-> -1],
             made |-> <<>>, returned |-> <<>>, snapshot |-> <<>>,
             scores |-> <<>>, batch |-> <<>>, cur |-> 0,
             seen |-> [pending |-> {}, history |-> {}],
             executed |-> 0]

NoReturn == [op |-> "none", ok |-> FALSE, decisions |-> <<>>, raised |-> FALSE]

Returned(op, ok, ds, raised) ==
    [op |-> op, ok |-> ok, decisions |-> ds, raised |-> raised]

Init ==
    /\ autonomous_mode = FALSE
    /\ active_goals = <<>>
    /\ pending_decisions = <<>>
    /\ decision_history = <<>>
    /\ base_resources = [evaluation_frequency |-> initial_evaluation_frequency]
    /\ decisions = <<>>
    /\ decision_lock = NoThread
    /\ journal = EmptyJournal
    /\ pc = [t \in Threads |-> "idle"]
    /\ loc = [t \in Threads |-> NoLocals]
    /\ ret = NoReturn
    /\ completion_fired = [g \in GoalIds |-> 0]
    /\ operations = 0
    /\ calls = 0
    /\ failures = 0

\* ------------------------------------------------------------------ goals
HasGoal(goals, id) == \E i \in 1..Len(goals) : goals[i].goal_id = id
GoalIndex(goals, id) == CHOOSE i \in 1..Len(goals) : goals[i].goal_id = id
GoalOf(goals, id) == goals[GoalIndex(goals, id)]

Max(a, b) == IF a >= b THEN a ELSE b
Min(a, b) == IF a <= b THEN a ELSE b

\* min(1.0, max(0.0, num / den)) for den # 0, scaled by ProgressScale
ClampedQuotient(num, den) ==
    LET n == IF den < 0 THEN -num ELSE num
        d == IF den < 0 THEN -den ELSE den
    IN  IF n <= 0 THEN 0
        ELSE IF n >= d THEN ProgressScale
        ELSE (ProgressScale * n) \div d

\* Progress as the fraction of the target reached, with no regard to the
\* value seen at the previous update
NewProgressOfTarget(goal, current_value) ==
    LET old_value == goal.current_value IN
    IF goal.target_value # old_value
    THEN ClampedQuotient(current_value, goal.target_value)
    ELSE goal.progress

\* update_goal_progress, "Calculate progress": interpolates between the value
\* seen at the previous update (old_value) and target_value
NewProgress(goal, current_value) ==
    LET old_value == goal.current_value IN
    IF goal.target_value # old_value
    THEN ClampedQuotient(current_value - old_value, goal.target_value - old_value)
    ELSE goal.progress

\* a plausible slip: the boost goes to the goals that list the completed goal
BoostDependentsOnCompleted(goals, completed_goal) ==
    [i \in 1..Len(goals) |->
        IF completed_goal.goal_id \in goals[i].dependencies
        THEN [goals[i] EXCEPT !.priority = Max(1, @ - 1)]
        ELSE goals[i]]

\* _trigger_goal_completion_decisions, the priority boost of the listed goals
BoostDependents(goals, completed_goal) ==
    [i \in 1..Len(goals) |->
        IF goals[i].goal_id \in completed_goal.dependencies
        THEN [goals[i] EXCEPT !.priority = Max(1, @ - 1)]
        ELSE goals[i]]

\* a plausible slip: the active flag follows the progress in both directions
GoalsAfterUpdateReactivates(goals, id, current_value) ==
    LET i == GoalIndex(goals, id)
        p == NewProgress(goals[i], current_value)
        g1 == [goals[i] EXCEPT !.current_value = current_value, !.progress = p]
        g2 == [g1 EXCEPT !.active = p < ProgressScale]
        gs == [goals EXCEPT ![i] = g2]
    IN  IF p >= ProgressScale THEN BoostDependents(gs, g2) ELSE gs

\* update_goal_progress on a known goal, the mutation of active_goals
GoalsAfterUpdate(goals, id, current_value) ==
    LET i == GoalIndex(goals, id)
        p == NewProgress(goals[i], current_value)
        g1 == [goals[i] EXCEPT !.current_value = current_value, !.progress = p]
        g2 == IF p >= ProgressScale THEN [g1 EXCEPT !.active = FALSE] ELSE g1
        gs == [goals EXCEPT ![i] = g2]
    IN  IF p >= ProgressScale THEN BoostDependents(gs, g2) ELSE gs

CompletesOnUpdate(goals, id, current_value) ==
    NewProgress(GoalOf(goals, id), current_value) >= ProgressScale

\* Every way one update_goal_progress call can end.  The journal sink may
\* fail at either write; its exception is not caught, so the call raises with
\* the mutation already applied.
GoalUpdateOutcomes(goals, j, fired, id, current_value) ==
    IF ~HasGoal(goals, id)
    THEN {[goals |-> goals, journal |-> j, fired |-> fired, ok |-> FALSE,
           raised |-> FALSE]}
    ELSE
      LET gs == GoalsAfterUpdate(goals, id, current_value)
          done == CompletesOnUpdate(goals, id, current_value)
          f == IF done THEN [fired EXCEPT ![id] = @ + 1] ELSE fired
          j1 == IF done THEN JournalWrite(j, "goal_completed", id) ELSE j
      IN  {[goals |-> gs, journal |-> JournalWrite(j1, "goal_progress_update", id),
            fired |-> f, ok |-> TRUE, raised |-> FALSE],
           [goals |-> gs, journal |-> j1, fired |-> f, ok |-> FALSE, raised |-> TRUE]}
          \cup (IF done
                THEN {[goals |-> gs, journal |-> j, fired |-> f, ok |-> FALSE,
                       raised |-> TRUE]}
                ELSE {})

\* a plausible slip: the duplicate test compares whole goals
AlreadyExistsByValue(goals, goal) == goal \in Range(goals)

\* add_goal, `goal.goal_id in self.active_goals`
AlreadyExists(goals, goal) == HasGoal(goals, goal.goal_id)

\* add_goal(goal), the whole call (it runs under the lock)
AddGoal(goal) ==
    /\ decision_lock = NoThread
    /\ operations < MaxOperations
    /\ operations' = operations + 1
    /\ IF AlreadyExists(active_goals, goal)
       THEN /\ ret' = Returned("add_goal", FALSE, <<>>, FALSE)
            /\ UNCHANGED <<active_goals, journal, failures>>
       ELSE /\ active_goals' = Append(active_goals, goal)
            /\ \/ /\ journal' = JournalWrite(journal, "goal_added", goal.goal_id)
                  /\ ret' = Returned("add_goal", TRUE, <<>>, FALSE)
                  /\ UNCHANGED failures
               \/ /\ SinkFails   
                  /\ ret' = Returned("add_goal", FALSE, <<>>, TRUE)
                  /\ UNCHANGED journal
    /\ UNCHANGED <<autonomous_mode, pending_decisions, decision_history,
                   base_resources, decisions, decision_lock, pc, loc,
                   completion_fired, calls>>

\* update_goal_progress(goal_id, current_value) called by a client, the whole
\* call (it runs under the lock)
UpdateGoalProgress(id, current_value) ==
    /\ decision_lock = NoThread
    /\ operations < MaxOperations
    /\ operations' = operations + 1
    /\ \E o \in GoalUpdateOutcomes(active_goals, journal, completion_fired,
                                   id, current_value) :
         /\ IF o.raised THEN SinkFails    ELSE UNCHANGED failures
         /\ active_goals' = o.goals
         /\ journal' = o.journal
         /\ completion_fired' = o.fired
         /\ ret' = Returned("update_goal_progress", o.ok, <<>>, o.raised)
    /\ UNCHANGED <<autonomous_mode, pending_decisions, decision_history,
                   base_resources, decisions, decision_lock, pc, loc, calls>>

\* start_autonomous_mode() / stop_autonomous_mode(): no lock is taken
StartAutonomousMode ==
    /\ autonomous_mode' = TRUE
    /\ UNCHANGED <<active_goals, pending_decisions, decision_history,
                   base_resources, decisions, decision_lock, journal, pc, loc,
                   ret, completion_fired, operations, calls, failures>>

\* a plausible slip: stopping also drops the decisions that wait
StopCancelsPending ==
    /\ autonomous_mode' = FALSE
    /\ pending_decisions' = <<>>
    /\ UNCHANGED <<active_goals, decision_history, base_resources, decisions,
                   decision_lock, journal, pc, loc, ret, completion_fired,
                   operations, calls, failures>>

StopAutonomousMode ==
    /\ autonomous_mode' = FALSE
    /\ UNCHANGED <<active_goals, pending_decisions, decision_history,
                   base_resources, decisions, decision_lock, journal, pc, loc,
                   ret, completion_fired, operations, calls, failures>>

\* ------------------------------------------------------------- assessment
\* One item of recent_performance: a number, or a dict read by its first
\* matching key ("field": a dict whose first numeric value is `value`;
\* "none": a dict without numeric value, or an item of another type).
Sample(key, value) == [key |-> key, value |-> value]
Number(value) == Sample("number", value)

\* _extract_performance_values
ExtractPerformanceValues(recent_performance) ==
    [i \in 1..Len(recent_performance) |->
        LET item == recent_performance[i]
        IN  IF item.key = "loss" THEN Max(0, 100 - item.value)
            ELSE IF item.key = "none" THEN 50
            ELSE item.value]

RECURSIVE Sum(_)
Sum(s) == IF s = <<>> THEN 0 ELSE Head(s) + Sum(Tail(s))

\* s[-k:]
Trailing(s, k) == SubSeq(s, Max(1, Len(s) - k + 1), Len(s))

Abs(x) == IF x < 0 THEN 0 - x ELSE x

\* floor(num * k / den), den > 0
Scaled(num, den, k) == (num \div den) * k + ((num % den) * k) \div den

\* the largest r in lo..hi with r * r <= v
RECURSIVE Root(_, _, _)
Root(v, lo, hi) ==
    IF lo = hi THEN lo
    ELSE LET mid == (lo + hi + 1) \div 2
         IN  IF mid * mid <= v THEN Root(v, mid, hi) ELSE Root(v, lo, mid - 1)

\* np.mean, in ten-thousandths
Mean(values) == Scaled(Sum(values), Len(values), 100)

\* n^2 * np.var(values), in ten-thousandths
SquaredSpread(values) ==
    LET n == Len(values)
    IN  n * Sum([i \in 1..n |-> values[i] * values[i]]) - Sum(values) * Sum(values)

\* np.var, in ten-thousandths
Variance(values) == SquaredSpread(values) \div (Len(values) * Len(values))

\* np.std, in ten-thousandths
StandardDeviation(values) ==
    Root(Scaled(SquaredSpread(values), Len(values) * Len(values), 10000), 0, 20000)

\* np.polyfit(range(len(values)), values, 1)[0] is SlopeNum / SlopeDen
\* hundredths per sample
SlopeNum(values) ==
    LET n == Len(values)
    IN  n * Sum([i \in 1..n |-> (i - 1) * values[i]])
        - Sum([i \in 1..n |-> i - 1]) * Sum(values)

SlopeDen(values) ==
    LET n == Len(values)
    IN  n * Sum([i \in 1..n |-> (i - 1) * (i - 1)])
        - Sum([i \in 1..n |-> i - 1]) * Sum([i \in 1..n |-> i - 1])

\* the slope in ten-thousandths per sample
Slope(values) == Scaled(SlopeNum(values), SlopeDen(values), 100)

\* max(0.0, min(1.0, x))
Clamp(x) == Max(0, Min(10000, x))

\* a plausible slip: an empty history is scored like a history of one zero
CalculateConfidenceOfZero(performance_values) ==
    IF performance_values = <<>> THEN 4500
    ELSE LET n == Len(performance_values)
             performance_std == IF n > 1 THEN StandardDeviation(performance_values)
                                ELSE 0
             consistency_factor == Max(0, 10000 - performance_std)
             trend_factor == IF n >= 5 THEN Clamp(5000 + Slope(performance_values))
                             ELSE 5000
             performance_factor == Clamp(100 * performance_values[n])
         IN  Clamp((4 * performance_factor + 3 * consistency_factor
                    + 3 * trend_factor) \div 10)

\* _calculate_confidence
CalculateConfidence(performance_values) ==
    IF performance_values = <<>> THEN 5000
    ELSE LET n == Len(performance_values)
             performance_std == IF n > 1 THEN StandardDeviation(performance_values)
                                ELSE 0
             consistency_factor == Max(0, 10000 - performance_std)
             trend_factor == IF n >= 5 THEN Clamp(5000 + Slope(performance_values))
                             ELSE 5000
             performance_factor == Clamp(100 * performance_values[n])
         IN  Clamp((4 * performance_factor + 3 * consistency_factor
                    + 3 * trend_factor) \div 10)

\* _predict_performance: slope * n + intercept of the fitted line is
\* mean + slope * (n + 1) / 2; the fit of three or more samples at distinct
\* indices always succeeds
PredictPerformance(performance_values) ==
    LET n == Len(performance_values)
    IN  IF n = 0 THEN 5000
        ELSE IF n >= 3
        THEN Clamp(Scaled(2 * SlopeDen(performance_values) * Sum(performance_values)
                          + n * (n + 1) * SlopeNum(performance_values),
                          2 * n * SlopeDen(performance_values), 100))
        ELSE Mean(Trailing(performance_values, 5))

\* _estimate_uncertainty, the mean of |actual - mean of the 5 samples before|
\* over the samples from the sixth on
PredictionError(performance_values) ==
    LET n == Len(performance_values)
        error == [i \in 6..n |->
                     Abs(5 * performance_values[i]
                         - Sum(SubSeq(performance_values, i - 5, i - 1)))]
    IN  Scaled(Sum([k \in 1..(n - 5) |-> error[k + 5]]), 5 * (n - 5), 100)

\* _estimate_uncertainty
EstimateUncertainty(performance_values) ==
    IF performance_values = <<>> THEN 10000
    ELSE LET n == Len(performance_values)
             performance_variance == IF n > 1 THEN Variance(performance_values) ELSE 0
             prediction_error == IF n >= 10 THEN PredictionError(performance_values)
                                 ELSE 0
         IN  Min(10000, performance_variance + prediction_error)

\* _recommend_learning_strategy, `abs(recent_trend) < 0.001` on the last 10
FlatTrend(performance_values) ==
    LET recent == Trailing(performance_values, 10)
    IN  10 * Abs(SlopeNum(recent)) < SlopeDen(recent)

\* _recommend_learning_strategy, `recent_variance > 0.1` on the last 10
HighVariance(performance_values) ==
    LET recent == Trailing(performance_values, 10)
    IN  SquaredSpread(recent) > 1000 * Len(recent) * Len(recent)

\* What the engine and the strategy rules read of a performance history: its
\* length, its confidence and uncertainty, and the two tests on the last 10.
Performance(n, c, u, flat, highvar) ==
    [n |-> n, confidence |-> c, uncertainty |-> u, flat |-> flat, highvar |-> highvar]

PerformanceOf(recent_performance) ==
    LET performance_values == ExtractPerformanceValues(recent_performance)
        n == Len(performance_values)
    IN  Performance(n, CalculateConfidence(performance_values),
                    EstimateUncertainty(performance_values),
                    n >= 10 /\ FlatTrend(performance_values),
                    n > 5 /\ HighVariance(performance_values))

Numbers(values) == [i \in 1..Len(values) |-> Number(values[i])]

\* the recent_performance the callers of make_autonomous_decision pass:
\* [], [0.80, 0.82, 0.85], [0, 1] * 5, [0.9] * 10, [1,0,0,1,1,1,1,0,0,1]
RecentPerformanceInputs ==
    {<<>>,
     Numbers(<<80, 82, 85>>),
     Numbers(<<0, 100, 0, 100, 0, 100, 0, 100, 0, 100>>),
     Numbers(<<90, 90, 90, 90, 90, 90, 90, 90, 90, 90>>),
     Numbers(<<100, 0, 0, 100, 100, 100, 100, 0, 0, 100>>)}

PerformanceInputs == {PerformanceOf(r) : r \in RecentPerformanceInputs}

\* current_metrics: -1 stands for a key that is absent
Metrics(stability, accuracy) == [training_stability |-> stability, accuracy |-> accuracy]

MetricsInputs ==
    {Metrics(-1, -1), Metrics(25, -1), Metrics(40, MaxValue - 1), Metrics(-1, MaxValue)}

\* a plausible slip: the trend and variance rules are tried first
RecommendLearningStrategyTrendFirst(confidence, uncertainty, perf) ==
    IF perf.n >= 10 /\ perf.flat THEN "aggressive"
    ELSE IF perf.n > 5 /\ perf.highvar THEN "conservative"
    ELSE IF confidence > 8000 /\ uncertainty < 2000 THEN "conservative"
    ELSE IF confidence < 4000 /\ uncertainty > 6000 THEN "aggressive"
    ELSE "balanced"

\* _recommend_learning_strategy
RecommendLearningStrategy(confidence, uncertainty, perf) ==
    IF confidence > 8000 /\ uncertainty < 2000 THEN "conservative"
    ELSE IF confidence < 4000 /\ uncertainty > 6000 THEN "aggressive"
    ELSE IF perf.n >= 10 /\ perf.flat THEN "aggressive"
    ELSE IF perf.n > 5 /\ perf.highvar THEN "conservative"
    ELSE "balanced"

\* assess_current_state, the assessment it builds
Assess(perf) ==
    [confidence_score |-> perf.confidence,
     uncertainty_estimate |-> perf.uncertainty,
     recommended_strategy |->
         RecommendLearningStrategy(perf.confidence, perf.uncertainty, perf)]

\* One entry of the current_metrics dict assess_current_state is given, or
\* one row of get_performance_metrics: a metric name and a value in
\* hundredths.  The dict keeps its insertion order.
Metric(name, value) == [metric_name |-> name, metric_value |-> value]

\* the metric names of the rows, in order of first appearance
RECURSIVE MetricGroups(_)
MetricGroups(rows) ==
    IF rows = <<>> THEN <<>>
    ELSE LET n == Len(rows)
             before == MetricGroups(SubSeq(rows, 1, n - 1))
         IN  IF rows[n].metric_name \in Range(before) THEN before
             ELSE Append(before, rows[n].metric_name)

\* the findings stand for the texts "Low performance in <name>: <value>"
\* and "Consistently poor <name>: avg <value>"
Gap(finding, name) == [finding |-> finding, metric_name |-> name]

\* _identify_knowledge_gaps
IdentifyKnowledgeGaps(current_metrics, historical_metrics) ==
    LET IsLow(m) == m.metric_value < 60
        low == SelectSeq(current_metrics, IsLow)
        ValuesOf(name) ==
            LET Named(row) == row.metric_name = name
                rows == SelectSeq(historical_metrics, Named)
            IN  [i \in 1..Len(rows) |-> rows[i].metric_value]
        IsPoor(name) == /\ Len(ValuesOf(name)) >= 5
                        /\ Sum(ValuesOf(name)) < 50 * Len(ValuesOf(name))
        poor == SelectSeq(MetricGroups(historical_metrics), IsPoor)
    IN  [i \in 1..Len(low) |-> Gap("low_performance", low[i].metric_name)]
        \o [i \in 1..Len(poor) |-> Gap("consistently_poor", poor[i])]

\* assess_current_state, the MetacognitiveAssessment it builds
Assessment(current_metrics, recent_performance, historical_metrics) ==
    LET performance_values == ExtractPerformanceValues(recent_performance)
        confidence_score == CalculateConfidence(performance_values)
        uncertainty_estimate == EstimateUncertainty(performance_values)
    IN  [confidence_score |-> confidence_score,
         predicted_performance |-> PredictPerformance(performance_values),
         uncertainty_estimate |-> uncertainty_estimate,
         knowledge_gaps |-> IdentifyKnowledgeGaps(current_metrics, historical_metrics),
         recommended_strategy |->
             RecommendLearningStrategy(confidence_score, uncertainty_estimate,
                                       PerformanceOf(recent_performance))]

\* ------------------------------------------------------------- decisions
NoParameters ==
    [learning_rate_adjustment |-> "", batch_size_multiplier |-> 0,
     new_strategy |-> "", recommended_strategy |-> "",
     evaluation_frequency |-> 0, goal_order |-> <<>>]

NoResult == [status |-> "", error |-> ""]

\* Decision(...): status, executed_at, completed_at and result keep their
\* dataclass defaults
Decision(id, type, priority, parameters, confidence) ==
    [decision_id |-> id, decision_type |-> type, priority |-> priority,
     parameters |-> parameters, confidence |-> confidence,
     status |-> "pending", executed_at |-> FALSE, completed_at |-> FALSE,
     result |-> NoResult]

\* f"<prefix>_{datetime.now().timestamp()}"
DecisionId(prefix, now) == <<prefix, now>>

\* The clock readings a call can get: the clock never runs backwards, and it
\* need not have advanced since the latest reading that is still on record.
Stamps(ds) == {ds[i].decision_id[2] : i \in 1..Len(ds)}
LatestReading ==
    LET seen == Stamps(decisions) \cup UNION {Stamps(loc[t].made) : t \in Threads}
    IN  CHOOSE n \in seen \cup {0} : \A k \in seen : k <= n
ClockReadings == IF LatestReading = 0 THEN {1} ELSE {LatestReading, LatestReading + 1}

\* _recommend_learning_rate
RecommendLearningRate(assessment) ==
    IF assessment.recommended_strategy = "aggressive" THEN "double"
    ELSE IF assessment.recommended_strategy = "conservative" THEN "halve"
    ELSE "keep"

NeedsLearningRateChange(assessment) ==
    assessment.confidence_score < 4000 \/ assessment.uncertainty_estimate > 7000

\* a plausible slip: the batch size rule is an `elif` of the learning rate rule
MakeParameterDecisionsExclusive(assessment, current_metrics, now) ==
    IF NeedsLearningRateChange(assessment)
    THEN <<Decision(DecisionId("lr_adjust", now), "parameter_adjustment", HIGH,
                    [NoParameters EXCEPT !.learning_rate_adjustment =
                                             RecommendLearningRate(assessment)],
                    assessment.confidence_score)>>
    ELSE IF current_metrics.training_stability # -1
            /\ current_metrics.training_stability < 50
    THEN <<Decision(DecisionId("batch_adjust", now), "parameter_adjustment", MEDIUM,
                    [NoParameters EXCEPT !.batch_size_multiplier =
                        IF current_metrics.training_stability < 30 THEN 15 ELSE 12],
                    7000)>>
    ELSE <<>>

\* _make_parameter_decisions
MakeParameterDecisions(assessment, current_metrics, now) ==
    (IF NeedsLearningRateChange(assessment)
     THEN <<Decision(DecisionId("lr_adjust", now), "parameter_adjustment", HIGH,
                     [NoParameters EXCEPT !.learning_rate_adjustment =
                                              RecommendLearningRate(assessment)],
                     assessment.confidence_score)>>
     ELSE <<>>)
    \o
    (IF current_metrics.training_stability # -1
        /\ current_metrics.training_stability < 50
     THEN <<Decision(DecisionId("batch_adjust", now), "parameter_adjustment", MEDIUM,
                     [NoParameters EXCEPT !.batch_size_multiplier =
                         IF current_metrics.training_stability < 30 THEN 15 ELSE 12],
                     7000)>>
     ELSE <<>>)

\* _make_strategy_decisions
MakeStrategyDecisions(assessment, perf, now) ==
    (IF perf.n >= 10 /\ perf.flat
     THEN <<Decision(DecisionId("strategy_change", now), "strategy_change", HIGH,
                     [NoParameters EXCEPT !.new_strategy = "aggressive_exploration"],
                     8000)>>
     ELSE <<>>)
    \o
    (IF assessment.recommended_strategy # "balanced"
     THEN <<Decision(DecisionId("strategy_align", now), "strategy_change", MEDIUM,
                     [NoParameters EXCEPT !.recommended_strategy =
                                              assessment.recommended_strategy],
                     assessment.confidence_score)>>
     ELSE <<>>)

\* a plausible slip: the two rules are tried independently (`if`, not `elif`)
MakeResourceDecisionsBothRules(assessment, current_eval_freq, now) ==
    (IF assessment.uncertainty_estimate > 7000
     THEN <<Decision(DecisionId("eval_freq", now), "resource_allocation", MEDIUM,
                     [NoParameters EXCEPT !.evaluation_frequency =
                                              Max(50, current_eval_freq \div 2)],
                     7000)>>
     ELSE <<>>)
    \o
    (IF assessment.confidence_score > 8000
     THEN <<Decision(DecisionId("eval_freq", now), "resource_allocation", LOW,
                     [NoParameters EXCEPT !.evaluation_frequency =
                                              Min(200, current_eval_freq * 2)],
                     8000)>>
     ELSE <<>>)

\* _make_resource_decisions
MakeResourceDecisions(assessment, current_eval_freq, now) ==
    IF assessment.uncertainty_estimate > 7000
    THEN <<Decision(DecisionId("eval_freq", now), "resource_allocation", MEDIUM,
                    [NoParameters EXCEPT !.evaluation_frequency =
                                             Max(50, current_eval_freq \div 2)],
                    7000)>>
    ELSE IF assessment.confidence_score > 8000
    THEN <<Decision(DecisionId("eval_freq", now), "resource_allocation", LOW,
                    [NoParameters EXCEPT !.evaluation_frequency =
                                             Min(200, current_eval_freq * 2)],
                    8000)>>
    ELSE <<>>

\* _make_goal_decisions, the priority score of one goal (no deadline:
\* urgency 1.0), scaled by 10 * ProgressScale
PriorityScore(goal) ==
    3 * goal.priority * ProgressScale + 4 * (ProgressScale - goal.progress)
    + 3 * ProgressScale

\* goal_priorities.sort(key=lambda x: x[1], reverse=True): descending, stable
SortByScoreDescending(goal_priorities) ==
    LET keyed == [i \in 1..Len(goal_priorities) |->
                     <<0 - goal_priorities[i][2], goal_priorities[i][1]>>]
        sorted == StableSort(keyed)
    IN  [i \in 1..Len(sorted) |-> sorted[i][2]]

\* a plausible slip: the goal decision is made at High priority
MakeGoalDecisionsUrgent(goal_priorities, now) ==
    IF Len(goal_priorities) > 1
    THEN <<Decision(DecisionId("goal_priority", now), "goal_prioritization", HIGH,
                    [NoParameters EXCEPT !.goal_order =
                                             SortByScoreDescending(goal_priorities)],
                    6000)>>
    ELSE <<>>

\* _make_goal_decisions, "Create goal prioritization decision"
MakeGoalDecisions(goal_priorities, now) ==
    IF Len(goal_priorities) > 1
    THEN <<Decision(DecisionId("goal_priority", now), "goal_prioritization", MEDIUM,
                    [NoParameters EXCEPT !.goal_order =
                                             SortByScoreDescending(goal_priorities)],
                    6000)>>
    ELSE <<>>

\* ------------------------------------------------ make_autonomous_decision
\* an exception leaves the call: the thread is back at its caller
Raise(t, op) ==
    /\ pc' = [pc EXCEPT ![t] = "idle"]
    /\ loc' = [loc EXCEPT ![t] = NoLocals]
    /\ ret' = Returned(op, FALSE, <<>>, TRUE)

\* a plausible slip: the mode check is missing
NeverRefused == FALSE

\* make_autonomous_decision, `if not self.autonomous_mode: return []`
RefusedByMode == ~autonomous_mode

\* make_autonomous_decision up to the goal rule-set: the mode check, the
\* assessment (journaled by _store_assessment) and the parameter, strategy and
\* resource rule-sets.  No lock is held.
MakeAutonomousDecision(t, perf, current_metrics) ==
    /\ pc[t] = "idle"
    /\ IF RefusedByMode
       THEN /\ ret' = Returned("make_autonomous_decision", TRUE, <<>>, FALSE)
            /\ UNCHANGED <<journal, pc, loc, operations, calls, failures>>
       ELSE /\ operations < MaxOperations /\ calls < MaxCalls
            /\ operations' = operations + 1
            /\ calls' = calls + 1
            /\ \E now \in ClockReadings :
               LET assessment == Assess(perf)
                   made == MakeParameterDecisions(assessment, current_metrics, now)
                           \o MakeStrategyDecisions(assessment, perf, now)
                           \o MakeResourceDecisions(assessment,
                                                    base_resources.evaluation_frequency,
                                                    now)
                   j1 == JournalWrite(journal, "self_assessment", "-")
               IN  \/ /\ SinkFails                   \* _store_assessment raises
                      /\ journal' = journal
                      /\ Raise(t, "make_autonomous_decision")
                   \/ /\ NeedsLearningRateChange(assessment)
                      /\ SinkFails                   \* get_learning_recommendations raises
                      /\ journal' = j1
                      /\ Raise(t, "make_autonomous_decision")
                   \/ /\ UNCHANGED failures
                      /\ journal' = IF NeedsLearningRateChange(assessment)
                                    THEN JournalWrite(j1, "metacognitive_recommendations", "-")
                                    ELSE j1
                      /\ pc' = [pc EXCEPT ![t] = "goals"]
                      /\ loc' = [loc EXCEPT ![t] =
                                    [NoLocals EXCEPT !.metrics = current_metrics,
                                                     !.made = made]]
                      /\ UNCHANGED ret
    /\ UNCHANGED <<autonomous_mode, active_goals, pending_decisions,
                   decision_history, base_resources, decisions, decision_lock,
                   completion_fired>>

ActiveGoalIds(goals) ==
    LET IsActive(g) == g.active
        act == SelectSeq(goals, IsActive)
    IN  [i \in 1..Len(act) |-> act[i].goal_id]

\* _make_goal_decisions, the snapshot of the active goals taken under the lock
GoalSnapshot(t) ==
    /\ pc[t] = "goals"
    /\ decision_lock = NoThread
    /\ LET snap == ActiveGoalIds(active_goals) IN
         /\ loc' = [loc EXCEPT ![t].snapshot = snap, ![t].cur = 1]
         /\ pc' = [pc EXCEPT ![t] = IF snap = <<>> THEN "enqueue" ELSE "goalloop"]
    /\ UNCHANGED <<autonomous_mode, active_goals, pending_decisions,
                   decision_history, base_resources, decisions, decision_lock,
                   journal, ret, completion_fired, operations, calls, failures>>

\* _make_goal_decisions, one iteration of the loop over the snapshot: the
\* update_goal_progress call (under the lock) when the goal's metric is given,
\* then the score of the goal as it is now; after the last goal, the sort and
\* the goal-prioritization decision
GoalStep(t) ==
    /\ pc[t] = "goalloop"
    /\ LET id == loc[t].snapshot[loc[t].cur]
           value == loc[t].metrics.accuracy
           last == loc[t].cur = Len(loc[t].snapshot)
           Scored(goals) ==
               LET scores == Append(loc[t].scores, <<id, PriorityScore(GoalOf(goals, id))>>)
               IN  /\ pc' = [pc EXCEPT ![t] = IF last THEN "enqueue" ELSE "goalloop"]
                   /\ \E now \in ClockReadings :
                        loc' = [loc EXCEPT
                                  ![t].scores = scores,
                                  ![t].cur = @ + 1,
                                  ![t].made =
                                     IF last THEN @ \o MakeGoalDecisions(scores, now)
                                     ELSE @]
                   /\ UNCHANGED ret
       IN  IF value # -1
           THEN /\ decision_lock = NoThread
                /\ \E o \in GoalUpdateOutcomes(active_goals, journal,
                                               completion_fired, id, value) :
                     /\ active_goals' = o.goals
                     /\ journal' = o.journal
                     /\ completion_fired' = o.fired
                     /\ IF o.raised
                        THEN SinkFails    /\ Raise(t, "make_autonomous_decision")
                        ELSE UNCHANGED failures /\ Scored(o.goals)
           ELSE /\ Scored(active_goals)
                /\ UNCHANGED <<active_goals, journal, completion_fired, failures>>
    /\ UNCHANGED <<autonomous_mode, pending_decisions, decision_history,
                   base_resources, decisions, decision_lock, operations, calls>>

\* make_autonomous_decision, "Add decisions to pending queue"
Enqueue(t) ==
    /\ pc[t] = "enqueue"
    /\ decision_lock = NoThread
    /\ LET made == loc[t].made
           refs == [i \in 1..Len(made) |-> Len(decisions) + i]
       IN  /\ decisions' = decisions \o made
           /\ pending_decisions' = pending_decisions \o refs
           /\ loc' = [loc EXCEPT ![t].returned = refs]
    /\ pc' = [pc EXCEPT ![t] = "sched"]
    /\ UNCHANGED <<autonomous_mode, active_goals, decision_history,
                   base_resources, decision_lock, journal, ret,
                   completion_fired, operations, calls, failures>>

\* ------------------------------------------------------------- scheduler
\* a plausible slip: the queue is not sorted before the batch is selected
SortByPriorityMissing(pending, objs) == pending

\* a plausible slip: an unstable sort, which puts equal keys in reverse
SortByPriorityUnstable(pending, objs) ==
    LET n == Len(pending)
        keyed == [i \in 1..n |->
                     <<objs[pending[n + 1 - i]].priority, pending[n + 1 - i]>>]
        sorted == StableSort(keyed)
    IN  [i \in 1..Len(sorted) |-> sorted[i][2]]

\* self.pending_decisions.sort(key=lambda d: d.priority.value)
SortByPriority(pending, objs) ==
    LET keyed == [i \in 1..Len(pending) |-> <<objs[pending[i]].priority, pending[i]>>]
        sorted == StableSort(keyed)
    IN  [i \in 1..Len(sorted) |-> sorted[i][2]]

\* a plausible slip: the batch is not cut to max_concurrent_decisions
SelectBatchUncut(sorted, objs) ==
    LET IsHighPriority(d) == objs[d].priority \in {CRITICAL, HIGH}
    IN  SelectSeq(sorted, IsHighPriority)

\* high_priority_decisions[:self.max_concurrent_decisions]
SelectBatch(sorted, objs) ==
    LET IsHighPriority(d) == objs[d].priority \in {CRITICAL, HIGH}
    IN  Take(SelectSeq(sorted, IsHighPriority), max_concurrent_decisions)

\* a plausible slip: the confidence gate is missing
PassesGateAlways(decision) == TRUE

\* the confidence gate of _execute_pending_decisions
PassesGate(decision) == decision.confidence >= decision_confidence_threshold

\* _execute_pending_decisions, entry: takes the lock, sorts the queue in place
\* and selects the batch
ExecutePendingDecisions(t) ==
    /\ pc[t] = "sched"
    /\ decision_lock = NoThread
    /\ decision_lock' = t
    /\ LET sorted == SortByPriority(pending_decisions, decisions) IN
         /\ pending_decisions' = sorted
         /\ loc' = [loc EXCEPT ![t].batch = SelectBatch(sorted, decisions)]
    /\ pc' = [pc EXCEPT ![t] = "exec"]
    /\ UNCHANGED <<autonomous_mode, active_goals, decision_history,
                   base_resources, decisions, journal, ret, completion_fired,
                   operations, calls, failures>>

\* _execute_pending_decisions, the loop head, and the first statements of
\* _execute_decision for a decision that passes the gate
BeginDecision(t) ==
    /\ pc[t] = "exec"
    /\ loc[t].batch # <<>>
    /\ LET d == Head(loc[t].batch) IN
         IF PassesGate(decisions[d])
         THEN /\ decisions' = [decisions EXCEPT ![d].status = "executing",
                                                ![d].executed_at = TRUE]
              /\ pc' = [pc EXCEPT ![t] = "handler"]
              /\ UNCHANGED loc
         ELSE /\ loc' = [loc EXCEPT ![t].batch = Tail(@)]
              /\ UNCHANGED <<decisions, pc>>
    /\ UNCHANGED <<autonomous_mode, active_goals, pending_decisions,
                   decision_history, base_resources, decision_lock, journal,
                   ret, completion_fired, operations, calls, failures>>

Applied == [status |-> "applied", error |-> ""]
NotImplemented == [status |-> "not_implemented", error |-> ""]
StoreError == [status |-> "", error |-> "store unavailable"]

HandlerResult(raised, result, j, resources) ==
    [raised |-> raised, result |-> result, journal |-> j, resources |-> resources]

\* _execute_parameter_adjustment: one store_performance_metric per parameter
ExecuteParameterAdjustment(decision, j, resources) ==
    {HandlerResult(FALSE, Applied, JournalWrite(j, "performance_metric", "-"), resources),
     HandlerResult(TRUE, NoResult, j, resources)}

\* _execute_strategy_change: journals the change
ExecuteStrategyChange(decision, j, resources) ==
    {HandlerResult(FALSE, Applied, JournalWrite(j, "strategy_change", "-"), resources),
     HandlerResult(TRUE, NoResult, j, resources)}

\* _execute_resource_allocation: setattr for every key base_resources has
ExecuteResourceAllocation(decision, j, resources) ==
    {HandlerResult(FALSE, Applied, j,
        IF decision.parameters.evaluation_frequency # 0
        THEN [resources EXCEPT !.evaluation_frequency =
                                   decision.parameters.evaluation_frequency]
        ELSE resources)}

\* a plausible slip: a type without handler is treated as an error
DispatchRejectsUnknown(decision, j, resources) ==
    IF decision.decision_type = "parameter_adjustment"
    THEN ExecuteParameterAdjustment(decision, j, resources)
    ELSE IF decision.decision_type = "strategy_change"
    THEN ExecuteStrategyChange(decision, j, resources)
    ELSE IF decision.decision_type = "resource_allocation"
    THEN ExecuteResourceAllocation(decision, j, resources)
    ELSE {HandlerResult(TRUE, NoResult, j, resources)}

\* _execute_decision, the dispatch on decision_type, for the types whose
\* handler returns or raises (goal_prioritization is HangsOnLock below)
Dispatch(decision, j, resources) ==
    IF decision.decision_type = "parameter_adjustment"
    THEN ExecuteParameterAdjustment(decision, j, resources)
    ELSE IF decision.decision_type = "strategy_change"
    THEN ExecuteStrategyChange(decision, j, resources)
    ELSE IF decision.decision_type = "resource_allocation"
    THEN ExecuteResourceAllocation(decision, j, resources)
    ELSE {HandlerResult(FALSE, NotImplemented, j, resources)}

\* _execute_goal_prioritization enters `with self.decision_lock` while the
\* calling thread holds that threading.Lock: it blocks for ever
HangsOnLock(decision) == decision.decision_type = "goal_prioritization"

\* a plausible slip: the status is not set after a handler returned
ExecutedStatusStale(decision, h) ==
    IF h.raised
    THEN [decision EXCEPT !.status = "failed", !.result = StoreError]
    ELSE [decision EXCEPT !.result = h.result, !.completed_at = TRUE]

\* _execute_decision, the try/except around the dispatch
Executed(decision, h) ==
    IF h.raised
    THEN [decision EXCEPT !.status = "failed", !.result = StoreError]
    ELSE [decision EXCEPT !.result = h.result, !.status = "completed",
                          !.completed_at = TRUE]

\* _execute_decision from the dispatch on: the handler, the status and result,
\* _store_decision_result (its exception is not caught: it leaves
\* _execute_pending_decisions, whose `with` releases the lock, and
\* make_autonomous_decision), the history append; then
\* pending_decisions.remove(decision)
FinishDecision(t) ==
    /\ pc[t] = "handler"
    /\ LET d == Head(loc[t].batch) IN
         IF HangsOnLock(decisions[d])
         THEN /\ pc' = [pc EXCEPT ![t] = "hung"]
              /\ UNCHANGED <<decisions, journal, base_resources, decision_history,
                             pending_decisions, decision_lock, loc, ret, failures>>
         ELSE \E h \in Dispatch(decisions[d], journal, base_resources) :
                /\ decisions' = [decisions EXCEPT ![d] = Executed(@, h)]
                /\ base_resources' = h.resources
                /\ \/ /\ IF h.raised THEN SinkFails ELSE UNCHANGED failures
                      /\ journal' = JournalWrite(h.journal, "decision_result", "-")
                      /\ decision_history' = Append(decision_history, d)
                      /\ pending_decisions' = RemoveFirst(pending_decisions, d)
                      /\ loc' = [loc EXCEPT ![t].batch = Tail(@),
                                             ![t].executed = @ + 1]
                      /\ pc' = [pc EXCEPT ![t] = "exec"]
                      /\ UNCHANGED <<decision_lock, ret>>
                   \/ /\ SinkFails
                      /\ journal' = h.journal
                      /\ decision_lock' = NoThread
                      /\ Raise(t, "make_autonomous_decision")
                      /\ UNCHANGED <<decision_history, pending_decisions>>
    /\ UNCHANGED <<autonomous_mode, active_goals, completion_fired, operations, calls>>

\* _execute_pending_decisions returns (the lock is released) and
\* make_autonomous_decision returns the decisions it made
Return(t) ==
    /\ pc[t] = "exec"
    /\ loc[t].batch = <<>>
    /\ decision_lock' = NoThread
    /\ pc' = [pc EXCEPT ![t] = "idle"]
    /\ ret' = Returned("make_autonomous_decision", TRUE, loc[t].returned, FALSE)
    /\ loc' = [loc EXCEPT ![t] = NoLocals]
    /\ UNCHANGED <<autonomous_mode, active_goals, pending_decisions,
                   decision_history, base_resources, decisions, journal,
                   completion_fired, operations, calls, failures>>

\* ------------------------------------------------------- status snapshots
\* get_system_status builds its dict entry by entry and takes no lock of its
\* own: 'autonomous_mode' and 'pending_decisions': len(self.pending_decisions),
\* the decisions this read counts
GetSystemStatus(t) ==
    /\ pc[t] = "idle"
    /\ operations < MaxOperations
    /\ operations' = operations + 1
    /\ pc' = [pc EXCEPT ![t] = "status_history"]
    /\ loc' = [loc EXCEPT ![t].seen.pending = Range(pending_decisions)]
    /\ UNCHANGED <<autonomous_mode, active_goals, pending_decisions,
                   decision_history, base_resources, decisions, decision_lock,
                   journal, ret, completion_fired, calls, failures>>

\* 'recent_decisions': len(self.get_decision_history(days=1)), which iterates
\* self.decision_history without the lock
StatusReadHistory(t) ==
    /\ pc[t] = "status_history"
    /\ pc' = [pc EXCEPT ![t] = "status_goals"]
    /\ loc' = [loc EXCEPT ![t].seen.history = Range(decision_history)]
    /\ UNCHANGED <<autonomous_mode, active_goals, pending_decisions,
                   decision_history, base_resources, decisions, decision_lock,
                   journal, ret, completion_fired, operations, calls, failures>>

\* 'goal_status': self.get_goal_status(), which waits for the lock, then the
\* resources; the dict is returned
StatusReturn(t) ==
    /\ pc[t] = "status_goals"
    /\ decision_lock = NoThread
    /\ pc' = [pc EXCEPT ![t] = "idle"]
    /\ loc' = [loc EXCEPT ![t] = NoLocals]
    /\ ret' = Returned("get_system_status", TRUE, <<>>, FALSE)
    /\ UNCHANGED <<autonomous_mode, active_goals, pending_decisions,
                   decision_history, base_resources, decisions, decision_lock,
                   journal, completion_fired, operations, calls, failures>>

\* ---------------------------------------------------------------- clients
\* A client appends a Decision it built to the public list pending_decisions
\* (the only way a CRITICAL decision, or one of a type without rule-set, gets
\* there).
ClientDecisions ==
    {Decision(DecisionId("client", 0), ty, pr, NoParameters, cf) :
        ty \in {"training_schedule", "parameter_adjustment"},
        pr \in {CRITICAL, HIGH, LOW}, cf \in {5000, 9000}}
    \cup {Decision(DecisionId("client", 0), "goal_prioritization", HIGH,
                   [NoParameters EXCEPT !.goal_order = <<"g1", "g2">>], 9000),
          Decision(DecisionId("client", 0), "resource_allocation", CRITICAL,
                   [NoParameters EXCEPT !.evaluation_frequency = 75], 9000)}

SubmitDecision(decision) ==
    /\ operations < MaxOperations /\ calls < MaxCalls
    /\ operations' = operations + 1
    /\ calls' = calls + 1
    /\ decisions' = Append(decisions, decision)
    /\ pending_decisions' = Append(pending_decisions, Len(decisions) + 1)
    /\ UNCHANGED <<autonomous_mode, active_goals, decision_history,
                   base_resources, decision_lock, journal, pc, loc, ret,
                   completion_fired, failures>>

\* a client that extends pending_decisions with several decisions at once
SubmitBacklog(batch) ==
    /\ operations < MaxOperations /\ calls < MaxCalls
    /\ operations' = operations + 1
    /\ calls' = calls + 1
    /\ decisions' = decisions \o batch
    /\ pending_decisions' =
           pending_decisions \o [i \in 1..Len(batch) |-> Len(decisions) + i]
    /\ UNCHANGED <<autonomous_mode, active_goals, decision_history,
                   base_resources, decision_lock, journal, pc, loc, ret,
                   completion_fired, failures>>

\* The journal sink fails again after the call in which it failed has ended:
\* the failed writes are counted per outage, and a new count begins
SinkFailsAgain ==
    /\ failures = MaxFailures
    /\ \A t \in Threads : pc[t] = "idle"
    /\ failures' = 0
    /\ UNCHANGED <<autonomous_mode, active_goals, pending_decisions,
                   decision_history, base_resources, decisions, decision_lock,
                   journal, pc, loc, ret, completion_fired, operations, calls>>

\* as many Critical decisions below the confidence threshold as one pass takes
BacklogInputs ==
    {[i \in 1..max_concurrent_decisions |->
         Decision(DecisionId("client", 0), "training_schedule", CRITICAL,
                  NoParameters, 5000)]}

\* ------------------------------------------------------------ specifications
\* the steps of a make_autonomous_decision call that thread t has begun
CallerStep(t) ==
    \/ GoalSnapshot(t)
    \/ GoalStep(t)
    \/ Enqueue(t)
    \/ ExecutePendingDecisions(t)
    \/ BeginDecision(t)
    \/ FinishDecision(t)
    \/ Return(t)

QuietPerformance == PerformanceOf(Numbers(<<80, 82, 85>>))
PlateauPerformance ==
    PerformanceOf(Numbers(<<90, 90, 90, 90, 90, 90, 90, 90, 90, 90>>))

PipelineGoals == {Goal("g1", MaxValue, 0, 2, {})}
PipelineMetrics == {Metrics(-1, -1), Metrics(25, MaxValue)}
GoalMetrics == {Metrics(-1, MaxValue - 1), Metrics(-1, MaxValue)}

\* The decision pipeline: one caller of make_autonomous_decision with every
\* performance input, a client that adds a goal, the mode toggles.
Next ==
    \/ StartAutonomousMode
    \/ StopAutonomousMode
    \/ \E goal \in PipelineGoals : AddGoal(goal)
    \/ \E perf \in PerformanceInputs, m \in PipelineMetrics :
          MakeAutonomousDecision("t1", perf, m)
    \/ CallerStep("t1")

Spec == Init /\ [][Next]_vars

\* The pipeline with a client that also appends its own decisions to
\* pending_decisions.
NextClient ==
    \/ Next
    \/ \E decision \in ClientDecisions : SubmitDecision(decision)

SpecClient == Init /\ [][NextClient]_vars

\* The pipeline with a client that leaves a backlog of decisions that do not
\* pass the confidence gate.
NextBacklog ==
    \/ Next
    \/ \E batch \in BacklogInputs : SubmitBacklog(batch)

SpecBacklog == Init /\ [][NextBacklog]_vars

\* The pipeline with a journal sink that fails in more than one call.
NextOutage ==
    \/ Next
    \/ SinkFailsAgain

SpecOutage == Init /\ [][NextOutage]_vars

\* Goal management: clients that add and update goals with every goal input,
\* concurrently with two callers of make_autonomous_decision whose metrics
\* carry the goals' target metric.
NextGoals ==
    \/ StartAutonomousMode
    \/ StopAutonomousMode
    \/ \E goal \in GoalInputs : AddGoal(goal)
    \/ \E id \in GoalIds, v \in GoalValues : UpdateGoalProgress(id, v)
    \/ \E t \in Threads, perf \in {QuietPerformance, PlateauPerformance},
          m \in GoalMetrics : MakeAutonomousDecision(t, perf, m)
    \/ \E t \in Threads : CallerStep(t)

SpecGoals == Init /\ [][NextGoals]_vars

\* The life of goals whose target lies inside the range of the values they
\* are updated with: clients add and update them.
LifecycleGoals ==
    {Goal("g1", MaxValue - 1, 0, 2, {}), Goal("g2", MaxValue, 0, 1, {"g1"})}

NextLifecycle ==
    \/ StartAutonomousMode
    \/ StopAutonomousMode
    \/ \E goal \in LifecycleGoals : AddGoal(goal)
    \/ \E id \in GoalIds, v \in GoalValues : UpdateGoalProgress(id, v)

SpecLifecycle == Init /\ [][NextLifecycle]_vars

\* The pipeline with a second thread that polls get_system_status.
NextStatus ==
    \/ Next
    \/ GetSystemStatus("t2")
    \/ StatusReadHistory("t2")
    \/ StatusReturn("t2")

SpecStatus == Init /\ [][NextStatus]_vars

\* ------------------------------------------------- the functions by themselves
\* How a call that returned a value ended, with the arguments it was given.
Result(op, args, value) ==
    [op |-> op, ok |-> TRUE, decisions |-> <<>>, raised |-> FALSE,
     args |-> args, value |-> value]

\* assess_current_state(model_name, current_metrics, recent_performance), the
\* whole call; historical_metrics are the rows get_performance_metrics finds
AssessCurrentState(current_metrics, recent_performance, historical_metrics) ==
    /\ operations < MaxOperations
    /\ operations' = operations + 1
    /\ \/ /\ journal' = JournalWrite(journal, "self_assessment", "-")
          /\ ret' = Result("assess_current_state",
                           [current_metrics |-> current_metrics,
                            recent_performance |-> recent_performance,
                            historical_metrics |-> historical_metrics],
                           Assessment(current_metrics, recent_performance,
                                      historical_metrics))
          /\ UNCHANGED failures
       \/ /\ SinkFails                               \* _store_assessment raises
          /\ ret' = Returned("assess_current_state", FALSE, <<>>, TRUE)
          /\ UNCHANGED journal
    /\ UNCHANGED <<autonomous_mode, active_goals, pending_decisions,
                   decision_history, base_resources, decisions, decision_lock,
                   pc, loc, completion_fired, calls>>

\* _recommend_learning_strategy(confidence, uncertainty, recent_performance)
RecommendStrategy(confidence, uncertainty, recent_performance) ==
    /\ ret' = Result("_recommend_learning_strategy",
                     [confidence |-> confidence, uncertainty |-> uncertainty,
                      recent_performance |-> recent_performance],
                     RecommendLearningStrategy(confidence, uncertainty,
                                               PerformanceOf(recent_performance)))
    /\ UNCHANGED <<autonomous_mode, active_goals, pending_decisions,
                   decision_history, base_resources, decisions, decision_lock,
                   journal, pc, loc, completion_fired, operations, calls,
                   failures>>

\* _make_parameter_decisions(model_name, assessment, current_metrics), the
\* whole call: get_learning_recommendations journals what it recommends
ParameterRules(assessment, current_metrics) ==
    /\ operations < MaxOperations
    /\ operations' = operations + 1
    /\ \E now \in ClockReadings :
         \/ /\ journal' = IF NeedsLearningRateChange(assessment)
                          THEN JournalWrite(journal, "metacognitive_recommendations", "-")
                          ELSE journal
            /\ ret' = Result("_make_parameter_decisions",
                             [assessment |-> assessment,
                              current_metrics |-> current_metrics],
                             MakeParameterDecisions(assessment, current_metrics, now))
            /\ UNCHANGED failures
         \/ /\ NeedsLearningRateChange(assessment)
            /\ SinkFails                    \* get_learning_recommendations raises
            /\ ret' = Returned("_make_parameter_decisions", FALSE, <<>>, TRUE)
            /\ UNCHANGED journal
    /\ UNCHANGED <<autonomous_mode, active_goals, pending_decisions,
                   decision_history, base_resources, decisions, decision_lock,
                   pc, loc, completion_fired, calls>>

\* _make_resource_decisions(model_name, assessment, current_metrics) when
\* base_resources.evaluation_frequency is current_eval_freq
ResourceRules(assessment, current_eval_freq) ==
    /\ base_resources.evaluation_frequency = current_eval_freq
    /\ \E now \in ClockReadings :
         ret' = Result("_make_resource_decisions",
                       [assessment |-> assessment,
                        current_eval_freq |-> current_eval_freq],
                       MakeResourceDecisions(assessment, current_eval_freq, now))
    /\ UNCHANGED <<autonomous_mode, active_goals, pending_decisions,
                   decision_history, base_resources, decisions, decision_lock,
                   journal, pc, loc, completion_fired, operations, calls,
                   failures>>

\* setattr(self.base_resources, "evaluation_frequency", value), as
\* _execute_resource_allocation does for a decision that carries the value
SetEvaluationFrequency(value) ==
    /\ base_resources' = [base_resources EXCEPT !.evaluation_frequency = value]
    /\ UNCHANGED <<autonomous_mode, active_goals, pending_decisions,
                   decision_history, decisions, decision_lock, journal, pc, loc,
                   ret, completion_fired, operations, calls, failures>>

\* Inputs of the assessment: every history of up to MaxSamples items, the
\* histories of the pipeline, histories of 3 to 10 samples for the fitted line
\* and the strategy rules, and metrics with and without a value below 0.6.
SampleInputs ==
    {Number(-50), Number(50), Number(150), Sample("loss", 150), Sample("none", 0)}

ShortHistories == UNION {[1..n -> SampleInputs] : n \in 0..MaxSamples}

LongHistories ==
    {Numbers(<<150, 150, 150>>),
     Numbers(<<-50, 50, 150, 250, 350>>),
     Numbers(<<50, 50, 50, 50, 50, 50>>),
     Numbers(<<0, 100, 0, 100, 0, 100>>),
     Numbers(<<80, 81, 82, 83, 84, 85, 86, 87, 88, 89>>)}

StrategyHistories ==
    RecentPerformanceInputs \cup LongHistories
    \cup {Numbers(<<0, 100>>), <<Sample("accuracy", 50), Sample("none", 0)>>}

HistoryInputs == ShortHistories \cup StrategyHistories

\* current_metrics with the rows get_performance_metrics finds
MetricsAndRows(current_metrics, historical_metrics) ==
    [current_metrics |-> current_metrics, historical_metrics |-> historical_metrics]

StoredMetricsInputs ==
    {MetricsAndRows(<<>>, <<>>),
     MetricsAndRows(<<Metric("accuracy", 85), Metric("loss", 23)>>, <<>>),
     MetricsAndRows(<<Metric("accuracy", 85), Metric("f1", 60)>>, <<>>),
     MetricsAndRows(<<Metric("loss", 70), Metric("accuracy", 55)>>,
                    <<Metric("accuracy", 40), Metric("recall", 90),
                      Metric("accuracy", 45), Metric("accuracy", 50),
                      Metric("accuracy", 55), Metric("accuracy", 55)>>)}

ConfidenceInputs == {3000, 4000, 8000, 9000}
UncertaintyInputs == {1000, 2000, 6000, 7000}

NextAssessment ==
    \E m \in StoredMetricsInputs, recent_performance \in HistoryInputs :
        AssessCurrentState(m.current_metrics, recent_performance,
                           m.historical_metrics)

SpecAssessment == Init /\ [][NextAssessment]_vars

NextStrategy ==
    \E confidence \in ConfidenceInputs, uncertainty \in UncertaintyInputs,
       recent_performance \in StrategyHistories :
        RecommendStrategy(confidence, uncertainty, recent_performance)

SpecStrategy == Init /\ [][NextStrategy]_vars

\* Inputs of the rule-sets: assessments on both sides of every threshold
AssessmentInputs ==
    [confidence_score : ConfidenceInputs, uncertainty_estimate : {6000, 7000, 8000},
     recommended_strategy : {"aggressive"}]

StabilityInputs == {-1, 25, 30, 40, 50, 60}
FrequencyInputs == {20, 50, 75, 101, 200, 400}

NextRules ==
    \/ \E assessment \in AssessmentInputs, stability \in StabilityInputs :
         ParameterRules(assessment, Metrics(stability, -1))
    \/ \E assessment \in AssessmentInputs, value \in FrequencyInputs :
         ResourceRules(assessment, value)
    \/ \E value \in FrequencyInputs : SetEvaluationFrequency(value)

SpecRules == Init /\ [][NextRules]_vars

\* ================================================================ claims
Allocated == 1..Len(decisions)
InPending(d) == d \in Range(pending_decisions)
InHistory(d) == d \in Range(decision_history)
InHandler(t) == pc[t] = "handler"
Current(t) == Head(loc[t].batch)

\* ---------------------------------------------------------------------
\* C1  A decision's status moves only Pending -> Executing ->
\*     Completed | Failed: none leaves Completed or Failed, none goes from
\*     Pending to a terminal status directly, none enters Executing twice.
\*     (Refuted: a decision whose record could not be journaled stays queued
\*     with its terminal status and the next pass executes it again.)
LegalStatusMoves ==
    {<<"pending", "executing">>, <<"executing", "completed">>,
     <<"executing", "failed">>}

C1_StatusLifecycle ==
    [][\A d \in Allocated :
         decisions'[d].status # decisions[d].status
            => <<decisions[d].status, decisions'[d].status>> \in LegalStatusMoves]_vars

\* ---------------------------------------------------------------------
\* C2  Within one pass of make_autonomous_decision the decision being
\*     executed has a priority at least as urgent as every decision the pass
\*     may still execute (Critical before High), and no Medium or Low
\*     decision is ever executed: each stays in the pending queue, Pending.
C2_PriorityOrder ==
    /\ \A t \in Threads :
         InHandler(t) =>
            \A i \in 2..Len(loc[t].batch) :
               decisions[Current(t)].priority <= decisions[loc[t].batch[i]].priority
    /\ \A d \in Allocated :
         decisions[d].priority \in {MEDIUM, LOW}
            => /\ decisions[d].status = "pending"
               /\ InPending(d)
               /\ ~InHistory(d)

\* a High decision runs after a Critical one of the same queue completed,
\* while a Low decision waits
C2_Witness ==
    \E t \in Threads :
       /\ InHandler(t)
       /\ decisions[Current(t)].priority = HIGH
       /\ \E d \in Range(decision_history) :
             decisions[d].priority = CRITICAL /\ d > Current(t)
       /\ \E d \in Range(pending_decisions) : decisions[d].priority \in {MEDIUM, LOW}

\* ---------------------------------------------------------------------
\* C3  A Critical or High decision whose confidence is below the threshold
\*     is never executed: it is in the pending queue, Pending, and is not in
\*     the history.
C3_ConfidenceGate ==
    \A d \in Allocated :
       (/\ decisions[d].priority \in {CRITICAL, HIGH}
        /\ decisions[d].confidence < decision_confidence_threshold)
          => /\ decisions[d].status = "pending"
             /\ InPending(d)
             /\ ~InHistory(d)

\* a call returned normally after a pass that skipped a High decision of low
\* confidence and executed another decision
C3_Witness ==
    /\ ret.op = "make_autonomous_decision"
    /\ ~ret.raised
    /\ \E d \in Range(pending_decisions) :
          /\ decisions[d].priority \in {CRITICAL, HIGH}
          /\ decisions[d].confidence < decision_confidence_threshold
    /\ decision_history # <<>>

\* ---------------------------------------------------------------------
\* C4  When the handler of a decision raises, the decision becomes Failed
\*     with the error in its result, the exception does not reach the caller
\*     and the pass goes on with the rest of its batch.
\*     (Refuted, through C5: the record of the failed decision is journaled
\*     outside the try/except.)
C4_HandlerFailureContained ==
    [][\A t \in Threads :
         (/\ InHandler(t)
          /\ decisions'[Current(t)].status = "failed")
            => /\ decisions'[Current(t)].result.error # ""
               /\ pc'[t] = "exec"
               /\ loc'[t].batch = Tail(loc[t].batch)]_vars

\* ---------------------------------------------------------------------
\* C5  A failure of the journal sink while a decision executes never raises
\*     past make_autonomous_decision and never changes the decision's
\*     outcome: a strategy change, whose handler only journals, completes.
\*     (Refuted on both counts.)
C5_JournalFailureHarmless ==
    [][\A t \in Threads :
         (/\ InHandler(t)
          /\ pc'[t] # "handler"
          /\ decisions[Current(t)].decision_type = "strategy_change")
            => /\ pc'[t] = "exec"
               /\ decisions'[Current(t)].status = "completed"]_vars

\* ---------------------------------------------------------------------
\* C6  update_goal_progress(id, v) repeated with the value the goal got from
\*     its previous update leaves the goal's progress as the previous update
\*     left it.
\*     (Refuted: the second call takes the first call's value as its
\*     baseline.)
Known(id) == \E i \in 1..Len(active_goals) : active_goals[i].goal_id = id
UpdatedBefore(id) == journal[<<"goal_progress_update", id>>] >= 1

C6_UpdateIdempotent ==
    [][\A id \in GoalIds, v \in GoalValues :
         (/\ Known(id)
          /\ UpdatedBefore(id)
          /\ GoalOf(active_goals, id).current_value = v
          /\ UpdateGoalProgress(id, v))
            => GoalOf(active_goals', id).progress
                  = GoalOf(active_goals, id).progress]_vars

\* ---------------------------------------------------------------------
\* C7  The completion side effects of a goal (the priority boost of its
\*     dependents, the goal_completed journal entry) fire at most once.
\*     (Refuted: an update of a completed goal with its target value keeps
\*     the progress at 1.0 and completes the goal again.)
C7_CompletionOnce == \A g \in GoalIds : completion_fired[g] <= 1

\* ---------------------------------------------------------------------
\* C8  While autonomous mode is off, make_autonomous_decision returns the
\*     empty list and changes nothing: not the pending queue, the history,
\*     the goals or the resources; it does not assess and journals nothing.
C8_ModeOffIsInert ==
    [][\A t \in Threads, perf \in PerformanceInputs, m \in MetricsInputs :
         (~autonomous_mode /\ MakeAutonomousDecision(t, perf, m))
            => /\ ret' = Returned("make_autonomous_decision", TRUE, <<>>, FALSE)
               /\ UNCHANGED <<engine, decision_lock, pc, loc, failures>>]_vars

\* a call returned the empty list although goals and decisions are waiting,
\* and no assessment was ever journaled
C8_Witness ==
    /\ ~autonomous_mode
    /\ ret = Returned("make_autonomous_decision", TRUE, <<>>, FALSE)
    /\ journal[<<"self_assessment", "-">>] = 0
    /\ failures = 0
    /\ pending_decisions # <<>>
    /\ active_goals # <<>>

\* ---------------------------------------------------------------------
\* C9  A decision of a type without handler that is executed ends Completed
\*     with the result {status: not_implemented}; it is never Failed.
WithoutHandler == {"training_schedule", "evaluation_trigger"}

C9_NoHandlerCompletes ==
    \A d \in Allocated :
       decisions[d].decision_type \in WithoutHandler
          => \/ decisions[d].status \in {"pending", "executing"}
             \/ /\ decisions[d].status = "completed"
                /\ decisions[d].result = NotImplemented

C9_Witness ==
    \E d \in Range(decision_history) :
       /\ decisions[d].decision_type \in WithoutHandler
       /\ decisions[d].status = "completed"
       /\ decisions[d].result = NotImplemented

\* ---------------------------------------------------------------------
\* C10 add_goal with an id that exists and update_goal_progress with an id
\*     that does not both return false without raising, change no state and
\*     journal nothing.
C10_RejectedCallsInert ==
    [][/\ \A goal \in GoalInputs :
            (Known(goal.goal_id) /\ AddGoal(goal))
               => /\ ret' = Returned("add_goal", FALSE, <<>>, FALSE)
                  /\ UNCHANGED <<engine, decision_lock, pc, loc, failures>>
       /\ \A id \in GoalIds, v \in GoalValues :
            (~Known(id) /\ UpdateGoalProgress(id, v))
               => /\ ret' = Returned("update_goal_progress", FALSE, <<>>, FALSE)
                  /\ UNCHANGED <<engine, decision_lock, pc, loc, failures>>]_vars

\* add_goal refused a goal whose id is taken by a different goal
C10_Witness ==
    /\ ret = Returned("add_goal", FALSE, <<>>, FALSE)
    /\ \E goal \in GoalInputs :
          /\ Known(goal.goal_id)
          /\ goal \notin Range(active_goals)
          /\ GoalOf(active_goals, goal.goal_id).current_value # goal.current_value

\* ---------------------------------------------------------------------
\* C11 Every write to pending_decisions, active_goals, decision_history,
\*     base_resources and autonomous_mode is made by a thread that holds
\*     decision_lock, in every public operation, the mode toggles included.
\*     (Refuted: start_autonomous_mode and stop_autonomous_mode assign the
\*     flag without taking the lock.)
\* the steps whose code runs inside `with self.decision_lock`: a thread that
\* holds the lock moves, or a call takes and releases it within the step
WriterHoldsLock ==
    \/ \E t \in Threads :
          /\ decision_lock = t \/ decision_lock' = t
          /\ pc'[t] # pc[t] \/ loc'[t] # loc[t]
    \/ \E goal \in GoalInputs : AddGoal(goal)
    \/ \E id \in GoalIds, v \in GoalValues : UpdateGoalProgress(id, v)
    \/ \E t \in Threads : GoalStep(t) \/ Enqueue(t)

SharedState ==
    <<pending_decisions, active_goals, decision_history, base_resources,
      autonomous_mode>>

C11_WritesUnderLock == [][SharedState' # SharedState => WriterHoldsLock]_vars

\* ---------------------------------------------------------------------
\* C12 A status snapshot taken while another thread mutates the engine
\*     equals the state before or after the mutation: it never counts a
\*     decision both as pending and as history.
\*     (Refuted: get_system_status reads len(pending_decisions) and the
\*     history without the lock, one after the other.)
C12_SnapshotNotTorn ==
    \A t \in Threads :
       pc[t] = "status_goals"
          => loc[t].seen.pending \cap loc[t].seen.history = {}

\* ---------------------------------------------------------------------
\* C13 No handler the scheduler runs while it holds the non-re-entrant
\*     decision_lock acquires that lock again: whatever the type of an
\*     eligible decision, make_autonomous_decision does not block for ever.
\*     (Refuted: _execute_goal_prioritization enters `with
\*     self.decision_lock` under _execute_pending_decisions' own.)
C13_NoSelfDeadlock == \A t \in Threads : pc[t] # "hung"

\* ---------------------------------------------------------------------
\* C14 With autonomous mode on, make_autonomous_decision assesses exactly
\*     once and returns every decision it made; when a single caller's call
\*     returns, each returned decision is either in the pending queue with
\*     status Pending or in the history with status Completed or Failed, and
\*     the returned object shows that status.
SameDecision(obj, made) ==
    /\ obj.decision_id = made.decision_id
    /\ obj.decision_type = made.decision_type
    /\ obj.priority = made.priority
    /\ obj.parameters = made.parameters

C14_ReturnsEveryDecision ==
    [][\A t \in Threads :
         Return(t)
            => /\ Len(ret'.decisions) = Len(loc[t].made)
               /\ \A i \in 1..Len(ret'.decisions) :
                    LET d == ret'.decisions[i] IN
                    /\ SameDecision(decisions'[d], loc[t].made[i])
                    /\ \/ /\ d \in Range(pending_decisions')
                          /\ d \notin Range(decision_history')
                          /\ decisions'[d].status = "pending"
                       \/ /\ d \in Range(decision_history')
                          /\ d \notin Range(pending_decisions')
                          /\ decisions'[d].status \in {"completed", "failed"}
               /\ journal'[<<"self_assessment", "-">>] <= calls'
               /\ failures' = 0 => journal'[<<"self_assessment", "-">>] = calls']_vars

\* a call returned a decision that failed together with one left pending
C14_Witness ==
    /\ ret.op = "make_autonomous_decision"
    /\ ~ret.raised
    /\ \E d \in Range(ret.decisions) :
          InHistory(d) /\ decisions[d].status = "failed"
    /\ \E d \in Range(ret.decisions) :
          InPending(d) /\ decisions[d].status = "pending"

\* ---------------------------------------------------------------------
\* C15 One make_autonomous_decision call moves at most
\*     max_concurrent_decisions decisions from the pending queue to the
\*     history, however many eligible decisions are pending.
Eligible(d) ==
    /\ decisions[d].priority \in {CRITICAL, HIGH}
    /\ PassesGate(decisions[d])

C15_BatchLimit == \A t \in Threads : loc[t].executed <= max_concurrent_decisions

\* a pass has executed its three decisions and leaves an eligible one queued
C15_Witness ==
    \E t \in Threads :
       /\ pc[t] = "exec"
       /\ loc[t].executed = max_concurrent_decisions
       /\ loc[t].batch = <<>>
       /\ \E d \in Range(pending_decisions) : Eligible(d)

\* ---------------------------------------------------------------------
\* C16 Toggling autonomous mode is not retroactive: a toggle changes the flag
\*     and nothing else, a make_autonomous_decision call that has passed the
\*     mode check goes on to enqueue and execute whatever the flag is now,
\*     and a call that starts observes the flag as it is then.
InFlightProceeds ==
    \A t \in Threads :
       /\ (pc[t] = "enqueue" /\ pc'[t] # "enqueue")
             => /\ pc'[t] = "sched"
                /\ Len(pending_decisions')
                      = Len(pending_decisions) + Len(loc[t].made)
       /\ (pc[t] = "sched" /\ pc'[t] # "sched")
             => /\ pc'[t] = "exec"
                /\ loc'[t].batch = SelectBatch(pending_decisions', decisions)
       /\ (pc[t] = "exec" /\ pc'[t] # "exec" /\ loc[t].batch # <<>>)
             => /\ pc'[t] = "handler"
                /\ decisions'[Current(t)].status = "executing"

C16_ToggleNotRetroactive ==
    [][/\ autonomous_mode' # autonomous_mode
          => UNCHANGED <<active_goals, pending_decisions, decision_history,
                         base_resources, decisions, decision_lock, journal,
                         pc, loc, ret, completion_fired>>
       /\ InFlightProceeds
       /\ \A t \in Threads, perf \in PerformanceInputs, m \in PipelineMetrics :
            MakeAutonomousDecision(t, perf, m)
               => IF autonomous_mode
                  THEN pc'[t] = "goals" \/ ret'.raised
                  ELSE pc'[t] = "idle" /\ ret'.decisions = <<>>]_vars

\* the mode was switched off after a call passed the check: the call executes
\* a decision it enqueued
C16_Witness ==
    /\ ~autonomous_mode
    /\ \E t \in Threads :
          /\ InHandler(t)
          /\ Current(t) \in Range(loc[t].returned)
    /\ \E d \in Range(pending_decisions) : decisions[d].status = "pending"

\* ---------------------------------------------------------------------
\* C17 Goals are never removed and deactivation is terminal: the goals that
\*     are known stay known, and a goal whose active flag is false never
\*     becomes active again.
C17_DeactivationTerminal ==
    [][/\ Len(active_goals') >= Len(active_goals)
       /\ \A i \in 1..Len(active_goals) :
            /\ active_goals'[i].goal_id = active_goals[i].goal_id
            /\ ~active_goals[i].active => ~active_goals'[i].active]_vars

\* a completed goal was updated again, its progress fell below 1.0, and it is
\* still inactive
C17_Witness ==
    \E i \in 1..Len(active_goals) :
       /\ ~active_goals[i].active
       /\ active_goals[i].progress < ProgressScale

\* ---------------------------------------------------------------------
\* C18 Executing a goal_prioritization decision sets the priority of every
\*     known goal listed in goal_order to its 1-based position in the list
\*     and changes nothing else of any goal.
\*     (Refuted, through C13: the handler blocks on decision_lock before it
\*     writes any priority.)
Position(order, id) == CHOOSE i \in 1..Len(order) : order[i] = id

C18_PrioritizationApplied ==
    [][\A t \in Threads :
         (/\ InHandler(t)
          /\ decisions[Current(t)].decision_type = "goal_prioritization"
          /\ pc'[t] # "handler")
            => LET order == decisions[Current(t)].parameters.goal_order IN
               /\ Len(active_goals') = Len(active_goals)
               /\ \A i \in 1..Len(active_goals) :
                    LET before == active_goals[i]
                        after == active_goals'[i]
                    IN  /\ after = [before EXCEPT !.priority = after.priority]
                        /\ after.priority =
                              IF before.goal_id \in Range(order)
                              THEN Position(order, before.goal_id)
                              ELSE before.priority]_vars

\* ---------------------------------------------------------------------
\* C19 decision ids are unique: no two distinct decisions that are in the
\*     pending queue or in the history carry the same decision_id, also when
\*     two make_autonomous_decision calls read the same clock value.
\*     (Refuted: an id is a prefix per rule and the clock reading, nothing
\*     else.)
C19_UniqueDecisionIds ==
    \A d1, d2 \in Range(pending_decisions) \cup Range(decision_history) :
       d1 # d2 => decisions[d1].decision_id # decisions[d2].decision_id

\* ---------------------------------------------------------------------
\* C20 When the journal sink fails while the assessment is stored,
\*     assess_current_state still returns the assessment and
\*     make_autonomous_decision goes on with it.
\*     (Refuted: _store_assessment's exception is caught nowhere.)
AssessmentNotStored ==
    journal'[<<"self_assessment", "-">>] = journal[<<"self_assessment", "-">>]

C20_AssessSurvivesSinkFailure ==
    [][\A t \in Threads, perf \in PerformanceInputs, m \in PipelineMetrics :
         (/\ autonomous_mode
          /\ MakeAutonomousDecision(t, perf, m)
          /\ AssessmentNotStored)
            => /\ pc'[t] = "goals"
               /\ ret' = ret]_vars

\* ---------------------------------------------------------------------
\* C21  Every assessment of an empty performance history, whatever the
\*      current metrics, has confidence 0.5 and uncertainty 1.0.
AssessedEmptyHistory ==
    /\ ret.op = "assess_current_state"
    /\ ~ret.raised
    /\ ret.args.recent_performance = <<>>

C21_EmptyHistoryDefaults ==
    AssessedEmptyHistory
    => /\ ret.value.confidence_score = 5000
       /\ ret.value.uncertainty_estimate = 10000

C21_Witness == AssessedEmptyHistory /\ ret.args.current_metrics # <<>>

\* ---------------------------------------------------------------------
\* C22  The recommended strategy is the result of the first rule that
\*      matches, in the order: confidence > 0.8 and uncertainty < 0.2 gives
\*      conservative; confidence < 0.4 and uncertainty > 0.6 gives
\*      aggressive; a flat trend of the last 10 samples gives aggressive; a
\*      variance of the last 10 samples above 0.1 gives conservative;
\*      otherwise balanced.  As stated, the two sample rules hold for a
\*      history of any length; the recommendation applies the trend rule to
\*      histories of at least 10 samples and the variance rule to histories
\*      of more than 5 samples only.
RecommendedFor ==
    [confidence |-> ret.args.confidence,
     uncertainty |-> ret.args.uncertainty,
     performance_values |-> ExtractPerformanceValues(ret.args.recent_performance)]

FirstMatch(confident, doubtful, flat, varying) ==
    IF confident THEN "conservative"
    ELSE IF doubtful THEN "aggressive"
    ELSE IF flat THEN "aggressive"
    ELSE IF varying THEN "conservative"
    ELSE "balanced"

C22_RulePrecedence ==
    ret.op = "_recommend_learning_strategy"
    => ret.value =
         FirstMatch(RecommendedFor.confidence > 8000 /\ RecommendedFor.uncertainty < 2000,
                    RecommendedFor.confidence < 4000 /\ RecommendedFor.uncertainty > 6000,
                    FlatTrend(RecommendedFor.performance_values),
                    HighVariance(RecommendedFor.performance_values))

C22_RulePrecedenceGivenEnoughSamples ==
    ret.op = "_recommend_learning_strategy"
    => ret.value =
         FirstMatch(RecommendedFor.confidence > 8000 /\ RecommendedFor.uncertainty < 2000,
                    RecommendedFor.confidence < 4000 /\ RecommendedFor.uncertainty > 6000,
                    /\ Len(RecommendedFor.performance_values) >= 10
                    /\ FlatTrend(RecommendedFor.performance_values),
                    /\ Len(RecommendedFor.performance_values) > 5
                    /\ HighVariance(RecommendedFor.performance_values))

\* the first rule wins over a flat trend of 10 samples
C22_Witness ==
    /\ ret.op = "_recommend_learning_strategy"
    /\ RecommendedFor.confidence > 8000 /\ RecommendedFor.uncertainty < 2000
    /\ Len(RecommendedFor.performance_values) >= 10
    /\ FlatTrend(RecommendedFor.performance_values)
    /\ ret.value = "conservative"

\* ---------------------------------------------------------------------
\* C23  The assessment of current metrics {accuracy: 0.85, loss: 0.23} and
\*      history [0.80, 0.82, 0.85], with no stored metric history, has no
\*      knowledge gaps and recommends one of the five learning strategies.
AssessedExample ==
    /\ ret.op = "assess_current_state"
    /\ ~ret.raised
    /\ ret.args.current_metrics = <<Metric("accuracy", 85), Metric("loss", 23)>>
    /\ ret.args.recent_performance = Numbers(<<80, 82, 85>>)
    /\ ret.args.historical_metrics = <<>>

C23_ExampleHasNoGaps ==
    AssessedExample
    => /\ ret.value.knowledge_gaps = <<>>
       /\ ret.value.recommended_strategy \in LearningStrategy

\* ---------------------------------------------------------------------
\* C24  The resource rule-set makes at most one resource_allocation
\*      decision per cycle: with uncertainty > 0.7 it carries
\*      evaluation_frequency max(50, current div 2); otherwise, with
\*      confidence > 0.8, it carries min(200, current * 2); otherwise there
\*      is none.  The carried frequency is within [50, 200] when the current
\*      frequency is.
ResourceRulesReturned == ret.op = "_make_resource_decisions"

Carried(decision) == decision.parameters.evaluation_frequency

C24_ResourceRules ==
    ResourceRulesReturned
    => LET assessment == ret.args.assessment
           current == ret.args.current_eval_freq
           made == ret.value
       IN  /\ Len(made) <= 1
           /\ \A i \in 1..Len(made) : made[i].decision_type = "resource_allocation"
           /\ IF assessment.uncertainty_estimate > 7000
              THEN Len(made) = 1 /\ Carried(made[1]) = Max(50, current \div 2)
              ELSE IF assessment.confidence_score > 8000
              THEN Len(made) = 1 /\ Carried(made[1]) = Min(200, current * 2)
              ELSE made = <<>>
           /\ current \in 50..200
              => \A i \in 1..Len(made) : Carried(made[i]) \in 50..200

\* both conditions hold and the odd current frequency is halved, rounded down
C24_Witness ==
    /\ ResourceRulesReturned
    /\ ret.args.assessment.uncertainty_estimate > 7000
    /\ ret.args.assessment.confidence_score > 8000
    /\ ret.args.current_eval_freq = 101
    /\ Len(ret.value) = 1
    /\ Carried(ret.value[1]) = 50

\* ---------------------------------------------------------------------
\* C25  The parameter rule-set makes a High parameter_adjustment exactly
\*      when the assessment has confidence < 0.4 or uncertainty > 0.7 and,
\*      independently, a Medium parameter_adjustment exactly when the
\*      training_stability metric is present and < 0.5, with
\*      batch_size_multiplier 1.5 if the stability is < 0.3 and 1.2
\*      otherwise; stability 0.25 gives Medium with 1.5.
ParameterRulesReturned == ret.op = "_make_parameter_decisions" /\ ~ret.raised

OfPriority(made, priority) ==
    LET Has(decision) == decision.priority = priority
    IN  SelectSeq(made, Has)

C25_ParameterRules ==
    ParameterRulesReturned
    => LET assessment == ret.args.assessment
           stability == ret.args.current_metrics.training_stability
           made == ret.value
           high == OfPriority(made, HIGH)
           medium == OfPriority(made, MEDIUM)
       IN  /\ \A i \in 1..Len(made) :
                /\ made[i].decision_type = "parameter_adjustment"
                /\ made[i].priority \in {HIGH, MEDIUM}
           /\ Len(high) = IF \/ assessment.confidence_score < 4000
                             \/ assessment.uncertainty_estimate > 7000
                          THEN 1 ELSE 0
           /\ Len(medium) = IF stability # -1 /\ stability < 50 THEN 1 ELSE 0
           /\ \A i \in 1..Len(medium) :
                medium[i].parameters.batch_size_multiplier =
                    IF stability < 30 THEN 15 ELSE 12

\* stability 0.25 with a doubtful assessment: both adjustments, Medium at 1.5
C25_Witness ==
    /\ ParameterRulesReturned
    /\ ret.args.current_metrics.training_stability = 25
    /\ ret.args.assessment.confidence_score < 4000
    /\ Len(OfPriority(ret.value, HIGH)) = 1
    /\ Len(OfPriority(ret.value, MEDIUM)) = 1
    /\ OfPriority(ret.value, MEDIUM)[1].parameters.batch_size_multiplier = 15

\* ---------------------------------------------------------------------
\* C26  The goal rule-set makes exactly one Medium goal_prioritization
\*      decision when at least two goals are active and none otherwise; its
\*      goal_order lists only active goals, each exactly once, in descending
\*      order of priority score, and every active goal whose target metric
\*      is among the current metrics has its progress updated before its
\*      score is computed.
TookSnapshot(t) == pc[t] = "goals" /\ pc'[t] # "goals" /\ pc'[t] # "idle"
ScoredGoal(t) == pc[t] = "goalloop" /\ loc'[t].cur = loc[t].cur + 1
RuleSetDone(t) == pc[t] \in {"goals", "goalloop"} /\ pc'[t] = "enqueue"

\* what the goal rule-set added to the decisions of this call
GoalDecisions(t) == SubSeq(loc'[t].made, Len(loc[t].made) + 1, Len(loc'[t].made))

ScoreOf(t, id) ==
    LET i == CHOOSE k \in 1..Len(loc'[t].scores) : loc'[t].scores[k][1] = id
    IN  loc'[t].scores[i][2]

SnapshotIsTheActiveGoals(t) ==
    LET snapshot == loc'[t].snapshot
    IN  /\ Range(snapshot) = {active_goals[i].goal_id :
                                 i \in {k \in 1..Len(active_goals) : active_goals[k].active}}
        /\ \A i, j \in 1..Len(snapshot) : snapshot[i] = snapshot[j] => i = j

UpdatedThenScored(t) ==
    LET id == loc[t].snapshot[loc[t].cur]
        goal == GoalOf(active_goals', id)
    IN  /\ loc[t].metrics.accuracy # -1 => goal.current_value = loc[t].metrics.accuracy
        /\ loc'[t].scores = Append(loc[t].scores, <<id, PriorityScore(goal)>>)

PrioritizesSnapshot(t) ==
    LET snapshot == loc'[t].snapshot
        made == GoalDecisions(t)
    IN  IF Len(snapshot) >= 2
        THEN /\ Len(made) = 1
             /\ made[1].decision_type = "goal_prioritization"
             /\ made[1].priority = MEDIUM
             /\ LET goal_order == made[1].parameters.goal_order
                IN  /\ Range(goal_order) = Range(snapshot)
                    /\ Len(goal_order) = Len(snapshot)
                    /\ \A i, j \in 1..Len(goal_order) :
                         i < j => ScoreOf(t, goal_order[i]) >= ScoreOf(t, goal_order[j])
        ELSE made = <<>>

ListsActiveGoalsOnly(t) ==
    \A i \in 1..Len(GoalDecisions(t)) :
        \A id \in Range(GoalDecisions(t)[i].parameters.goal_order) :
            GoalOf(active_goals', id).active

C26_GoalRules ==
    [][\A t \in Threads :
         /\ TookSnapshot(t) => SnapshotIsTheActiveGoals(t)
         /\ ScoredGoal(t) => UpdatedThenScored(t)
         /\ RuleSetDone(t) => PrioritizesSnapshot(t) /\ ListsActiveGoalsOnly(t)]_vars

\* ---------------------------------------------------------------------
\* C27  Every assessment has its confidence, its predicted performance and
\*      its uncertainty within [0, 1], whatever the samples are: one or two
\*      samples, and numbers that are taken as they are.
C27_AssessmentWithinUnitInterval ==
    (ret.op = "assess_current_state" /\ ~ret.raised)
    => /\ ret.value.confidence_score \in 0..10000
       /\ ret.value.predicted_performance \in 0..10000
       /\ ret.value.uncertainty_estimate \in 0..10000

\* ---------------------------------------------------------------------
\* C28  Every eligible pending decision is executed: when at most
\*      max_concurrent_decisions pending Critical or High decisions pass
\*      the confidence gate, the next make_autonomous_decision call with
\*      the mode on executes each of them, whatever else is in the queue,
\*      Critical or High decisions that fail the gate included; so every
\*      eligible decision ends Completed or Failed under repeated calls.
\*      Checked where the call selects what it executes, in the runs in
\*      which the journal sink has not failed: every eligible decision is in
\*      the batch.
EligiblePending ==
    {d \in Range(pending_decisions) : decisions[d].status = "pending" /\ Eligible(d)}

C28_EligibleIsExecuted ==
    [][\A t \in Threads :
         (/\ pc[t] = "sched" /\ pc'[t] = "exec"
          /\ failures = 0
          /\ Cardinality(EligiblePending) <= max_concurrent_decisions)
         => EligiblePending \subseteq Range(loc'[t].batch)]_vars

\* ---------------------------------------------------------------------
\* C29  In every reachable state, those after a failure of the journal
\*      sink during an execution included, every decision in the pending
\*      queue has status pending, every decision in the history has status
\*      completed or failed, and no decision is in both queues, or terminal
\*      and in neither.  Checked in the states in which no pass holds the
\*      lock.
Terminal(d) == decisions[d].status \in {"completed", "failed"}

C29_QueuesMatchStatus ==
    decision_lock = NoThread
    => \A d \in Allocated :
         /\ InPending(d) => decisions[d].status = "pending"
         /\ InHistory(d) => Terminal(d)
         /\ ~(InPending(d) /\ InHistory(d))
         /\ Terminal(d) => InPending(d) \/ InHistory(d)


\* ---------------------------------------------------------------------
\* C30  update_goal_progress(id, v) on a known goal whose current value was
\*      o and whose target is t sets the current value to v; when o # t it
\*      sets progress to (v - o)/(t - o) clamped into [0, 1], and when o = t
\*      it leaves progress as it was.  Progress therefore stays within
\*      [0, 1], and an update with v = t and o # t gives progress 1 and
\*      deactivates the goal.
\*
\* The quotient (v - o)/(t - o) for o # t, clamped into [0, 1] and scaled by
\* ProgressScale: the clamp of the one q with q * (t - o) = (v - o) * ProgressScale
IsClampedInterpolation(p, o, t, v) ==
    \E q \in (-(MaxValue * ProgressScale))..(MaxValue * ProgressScale) :
        /\ q * (t - o) = (v - o) * ProgressScale
        /\ p = Max(0, Min(ProgressScale, q))

UpdateSetsProgress(id, v) ==
    LET before == GoalOf(active_goals, id)
        after  == GoalOf(active_goals', id)
        o == before.current_value
        t == before.target_value
    IN  /\ after.current_value = v
        /\ IF o # t
           THEN IsClampedInterpolation(after.progress, o, t, v)
           ELSE after.progress = before.progress
        /\ after.progress \in 0..ProgressScale
        /\ (v = t /\ o # t) => (after.progress = ProgressScale /\ ~after.active)

C30_UpdateInterpolates ==
    [][\A id \in GoalIds, v \in GoalValues :
         (HasGoal(active_goals, id) /\ UpdateGoalProgress(id, v))
            => UpdateSetsProgress(id, v)]_vars

\* An update has brought a goal to its target: it is complete and inactive
C30_Witness ==
    /\ ret.op = "update_goal_progress"
    /\ \E i \in 1..Len(active_goals) :
         /\ active_goals[i].current_value = active_goals[i].target_value
         /\ active_goals[i].progress = ProgressScale
         /\ ~active_goals[i].active


\* ---------------------------------------------------------------------
\* C31  When a goal completes (one call of
\*      _trigger_goal_completion_decisions), every known goal listed in its
\*      dependencies gets priority max(1, priority - 1), never below 1, and
\*      one goal_completed journal entry is written for it and none for
\*      another goal; where the sink refuses that entry the call raises.
\*      The priority of every goal not listed and the progress, current
\*      value and active flag of every other goal stay as they were.
Completes(id) == completion_fired'[id] = completion_fired[id] + 1

CompletionEntries(j, id) == j[<<"goal_completed", id>>]

CompletionEffects(id) ==
    LET completed_goal == GoalOf(active_goals, id) IN
    /\ Len(active_goals') = Len(active_goals)
    /\ \A i \in 1..Len(active_goals) :
         LET before == active_goals[i]
             after  == active_goals'[i]
         IN  /\ after.goal_id = before.goal_id
             /\ IF before.goal_id \in completed_goal.dependencies
                THEN /\ after.priority = Max(1, before.priority - 1)
                     /\ after.priority >= 1
                ELSE after.priority = before.priority
             /\ before.goal_id # id
                => /\ after.progress = before.progress
                   /\ after.current_value = before.current_value
                   /\ after.active = before.active
    /\ \/ CompletionEntries(journal', id) = CompletionEntries(journal, id) + 1
       \/ /\ CompletionEntries(journal', id) = CompletionEntries(journal, id)
          /\ failures' = failures + 1
          /\ ret'.raised
    /\ failures' = failures
       => CompletionEntries(journal', id) = CompletionEntries(journal, id) + 1
    /\ \A other \in GoalIds \ {id} :
         CompletionEntries(journal', other) = CompletionEntries(journal, other)

C31_CompletionEffects ==
    [][\A id \in GoalIds : Completes(id) => CompletionEffects(id)]_vars

\* a goal has completed once, its entry is in the journal, and a goal it
\* lists stands at priority 1 while the completed goal kept its own priority
C31_Witness ==
    \E i, k \in 1..Len(active_goals) :
        /\ completion_fired[active_goals[i].goal_id] = 1
        /\ active_goals[k].goal_id \in active_goals[i].dependencies
        /\ i # k
        /\ active_goals[k].priority = 1
        /\ active_goals[k].active
        /\ active_goals[i].priority = 2
        /\ CompletionEntries(journal, active_goals[i].goal_id) = 1


\* ---------------------------------------------------------------------
\* C32  No decision is lost or cancelled: every decision that was enqueued
\*      is in the pending queue until it has been executed and in the
\*      history from then on; the history only grows at its end; no step
\*      drops a pending decision that was not executed, and no decision has
\*      status cancelled.
NeverLost ==
    [][\A d \in Allocated :
         d \in Range(pending_decisions') \cup Range(decision_history')]_vars

LeavesPendingOnlyExecuted ==
    [][\A d \in Allocated :
         (InPending(d) /\ d \notin Range(pending_decisions'))
            => /\ Terminal(d)'
               /\ d \in Range(decision_history')]_vars

HistoryAppendOnly ==
    [][/\ Len(decision_history') >= Len(decision_history)
       /\ SubSeq(decision_history', 1, Len(decision_history)) = decision_history]_vars

NeverCancelled == \A d \in Allocated : decisions[d].status # "cancelled"

ExecutedIsInHistory ==
    \A d \in Allocated :
        (decision_lock = NoThread /\ Terminal(d))
            => InHistory(d) /\ ~InPending(d)

C32_NoDecisionLost ==
    /\ NeverLost
    /\ LeavesPendingOnlyExecuted
    /\ HistoryAppendOnly
    /\ []NeverCancelled
    /\ []ExecutedIsInHistory


\* ---------------------------------------------------------------------
\* C33  Under every interleaving of concurrent callers of
\*      make_autonomous_decision each decision is executed at most once and
\*      is at most once in the history: a pass begins to execute only a
\*      decision that no pass has executed or is executing, whichever caller
\*      enqueued it.
BeginsToExecute(d) ==
    decisions[d].status # "executing" /\ decisions'[d].status = "executing"

Occurrences(s, x) == Cardinality({i \in 1..Len(s) : s[i] = x})

ExecutesOnlyTheUnexecuted ==
    [][\A d \in Allocated :
         BeginsToExecute(d)
            => /\ decisions[d].status = "pending"
               /\ ~decisions[d].executed_at
               /\ ~InHistory(d)]_vars

OnceInHistory == \A d \in Allocated : Occurrences(decision_history, d) <= 1

C33_ExecutedAtMostOnce == ExecutesOnlyTheUnexecuted /\ []OnceInHistory

\* the same while the journal sink has stored every write
ExecutesOnlyTheUnexecutedWhileSinkWorks ==
    [][\A d \in Allocated :
         (failures = 0 /\ BeginsToExecute(d))
            => /\ decisions[d].status = "pending"
               /\ ~decisions[d].executed_at
               /\ ~InHistory(d)]_vars

\* one caller's pass has executed the decision another caller enqueued, and
\* that caller has not begun its own pass
PassExecutedAnothersDecision ==
    \E t \in Threads, d \in Allocated :
        /\ pc[t] = "sched"
        /\ d \in Range(loc[t].returned)
        /\ InHistory(d)
        /\ failures = 0


\* ---------------------------------------------------------------------
\* C34  The public operations never execute a resource_allocation or a
\*      goal_prioritization decision: the rule-sets make them at Medium or
\*      Low priority only, so each stays Pending in the queue;
\*      base_resources keeps evaluation_frequency = 100, and a goal's
\*      priority changes only by the boost of a completion that lists it.
OfUnexecutedType(d) ==
    decisions[d].decision_type \in {"resource_allocation", "goal_prioritization"}

NeverExecutesResourceOrGoalDecision ==
    /\ base_resources = [evaluation_frequency |-> initial_evaluation_frequency]
    /\ \A d \in Allocated :
         OfUnexecutedType(d)
            => /\ decisions[d].priority \in {MEDIUM, LOW}
               /\ decisions[d].status = "pending"
               /\ ~decisions[d].executed_at
               /\ InPending(d) /\ ~InHistory(d)
    /\ \A t \in Threads : pc[t] # "hung"

PrioritiesChangeByBoostOnly ==
    [][\A i \in 1..Len(active_goals) :
         active_goals'[i].priority # active_goals[i].priority
            => \E id \in GoalIds :
                 /\ Completes(id)
                 /\ active_goals[i].goal_id \in GoalOf(active_goals, id).dependencies
                 /\ active_goals'[i].priority = Max(1, active_goals[i].priority - 1)]_vars

C34_ResourceAndGoalDecisionsStayPending ==
    []NeverExecutesResourceOrGoalDecision /\ PrioritiesChangeByBoostOnly

\* a call has returned whose pass executed a decision while the
\* resource_allocation and goal_prioritization decisions it made wait
C34_Witness ==
    /\ ret.op = "make_autonomous_decision" /\ ~ret.raised
    /\ \E d \in Range(ret.decisions) : InHistory(d)
    /\ \E d \in Range(ret.decisions) :
         decisions[d].decision_type = "resource_allocation" /\ InPending(d)
    /\ \E d \in Range(ret.decisions) :
         decisions[d].decision_type = "goal_prioritization" /\ InPending(d)


\* ---------------------------------------------------------------------
\* C35  No step changes the priority or the confidence of a decision, and
\*      the threshold is a constant; so a Critical or High decision whose
\*      confidence is below the threshold is, in every state, in the pending
\*      queue with status Pending and not in the history, whatever calls of
\*      make_autonomous_decision follow.
FailsGate(d) ==
    /\ decisions[d].priority \in {CRITICAL, HIGH}
    /\ decisions[d].confidence < decision_confidence_threshold

PriorityAndConfidenceFixed ==
    [][\A d \in Allocated :
         /\ decisions'[d].priority = decisions[d].priority
         /\ decisions'[d].confidence = decisions[d].confidence]_vars

GatedStaysPending ==
    \A d \in Allocated :
        FailsGate(d)
           => /\ InPending(d) /\ ~InHistory(d)
              /\ decisions[d].status = "pending"
              /\ ~decisions[d].executed_at

C35_GatedDecisionStaysPending ==
    PriorityAndConfidenceFixed /\ []GatedStaysPending

\* a later call has run its pass and executed a decision enqueued after the
\* one that fails the gate, which still waits
C35_Witness ==
    /\ ret.op = "make_autonomous_decision" /\ ~ret.raised
    /\ \E d, e \in Allocated :
         /\ FailsGate(d) /\ InPending(d)
         /\ d < e
         /\ e \in Range(ret.decisions)
         /\ d \notin Range(ret.decisions)
         /\ InHistory(e)


\* ---------------------------------------------------------------------
\* C36  The scheduler keeps the enqueue order among decisions of equal
\*      priority (the sort is stable): decisions of one priority stand in
\*      the pending queue in the order they were enqueued and no step swaps
\*      two of them; of two eligible decisions of one priority the one
\*      enqueued earlier is executed first and is first in the history.
\*      References are handed out in enqueue order.
SamePriority(d, e) == decisions[d].priority = decisions[e].priority

PendingInEnqueueOrder ==
    \A i, k \in 1..Len(pending_decisions) :
        (i < k /\ SamePriority(pending_decisions[i], pending_decisions[k]))
           => pending_decisions[i] < pending_decisions[k]

EarlierIsExecutedFirst ==
    \A d, e \in Allocated :
        (d < e /\ SamePriority(d, e) /\ Eligible(d) /\ Eligible(e))
           => /\ decisions[e].executed_at => decisions[d].executed_at
              /\ InHistory(d) /\ InHistory(e)
                 => Position(decision_history, d) < Position(decision_history, e)

NoSwapOfEqualPriority ==
    [][\A d, e \in Range(pending_decisions) \cap Range(pending_decisions') :
         (SamePriority(d, e)
            /\ Position(pending_decisions, d) < Position(pending_decisions, e))
           => Position(pending_decisions', d) < Position(pending_decisions', e)]_vars

C36_StableOrder ==
    /\ []PendingInEnqueueOrder
    /\ []EarlierIsExecutedFirst
    /\ NoSwapOfEqualPriority

\* the sort has moved a more urgent decision ahead of one enqueued before
\* it, and two eligible decisions of one priority were executed in the
\* order they were enqueued
C36_Witness ==
    /\ \E i, k \in 1..Len(pending_decisions) :
         i < k /\ pending_decisions[i] > pending_decisions[k]
    /\ \E d, e \in Allocated :
         /\ d < e /\ SamePriority(d, e) /\ Eligible(d) /\ Eligible(e)
         /\ InHistory(d) /\ InHistory(e)
         /\ Position(decision_history, d) < Position(decision_history, e)


\* ---------------------------------------------------------------------
\* C37  In every state the status of a decision agrees with its time stamps
\*      and its result: a Pending decision has no executed_at, no
\*      completed_at and no result; a Completed one has executed_at,
\*      completed_at and a result with a status; a Failed one has
\*      executed_at, no completed_at and a result with an error.
HasResult(decision) == decision.result # NoResult

C37_StatusAgreesWithFields ==
    \A d \in Allocated :
        LET decision == decisions[d] IN
        /\ decision.status = "pending"
           => /\ ~decision.executed_at
              /\ ~decision.completed_at
              /\ ~HasResult(decision)
        /\ decision.status = "completed"
           => /\ decision.executed_at
              /\ decision.completed_at
              /\ decision.result.status # ""
        /\ decision.status = "failed"
           => /\ decision.executed_at
              /\ ~decision.completed_at
              /\ decision.result.error # ""

====
